---- MODULE Spec2Model ----
(***************************************************************************)
(* State-machine model of the aiimglib media catalog: the record store     *)
(* (app/crud.py, app/models.py), the tag service, the managed file         *)
(* storage (app/services/files.py) and the two-phase legacy importer       *)
(* (scripts/import_legacy_json.py).                                        *)
(*                                                                         *)
(* Value encodings.  Python values of mixed type are encoded as records of *)
(* one shape so that any two of them can be compared:                      *)
(*   id        [kind, n]   kind "none" (None), "legacy" (a legacy string   *)
(*             id), "uuid" (an id made by uuid4), "empty" (""), "nonstr"   *)
(*   file name [null, dir, stem, ext]; null is None, stem a sequence of    *)
(*             string tokens, dir "" / "sub/" / "../"                      *)
(*   prompt    [kind, items, text]; kind "null", "str", "dict", "list",    *)
(*             "other"; items the elements of a list, each an Item         *)
(*   Item      [type, keys, id, text]; type "str", "dict", "other"         *)
(***************************************************************************)
EXTENDS Integers, Sequences, FiniteSets, TLC

VARIABLES
    images,            \* committed rows of table image: id -> row
    tags,              \* committed rows of table tag: set of [id, name]
    links,             \* committed rows of table imagetaglink
    storage,           \* managed images directory: stored name -> content
    nextId,            \* number of the next uuid4 drawn
    now,               \* datetime.utcnow(), as a counter
    pc,                \* position of import_entries
    dry_run,           \* argument dry_run of the running import
    batch,             \* the entries the import loop has consumed so far
    tx,                \* the importer session's uncommitted view of the tables
    imported_records,  \* local imported_records of import_entries
    legacy_lookup,     \* local legacy_lookup of import_entries
    idx,               \* position of the loop of _apply_reference_updates
    before,            \* tables and storage as they were when the call began
    outcome,           \* "none", "running", "ok" or "error"
    error,             \* the exception the call ended with, or "none"
    last_op,           \* the last store operation and its result
    sessions,          \* the two concurrent sessions that run tags.ensure_tags
    writer             \* the session that holds SQLite's write lock, or 0

vars == <<images, tags, links, storage, nextId, now, pc, dry_run, batch, tx,
          imported_records, legacy_lookup, idx, before, outcome, error, last_op,
          sessions, writer>>

-----------------------------------------------------------------------------
(* Bounds of the model.                                                    *)

\* entries consumed by the imports of one behaviour, per specification
MaxRefEntries == 3
MaxFileEntries == 3
MaxVideoEntries == 2
\* records created through the store in one behaviour
MaxCreates == 2
\* store operations of one behaviour of the update specification
MaxUpdateOps == 3
\* elements of the lists given to the prompt-metadata validator
MaxPromptLen == 3
\* creations, updates and import entries of one behaviour of the rating specification
MaxRatingOps == 3
\* store operations and import entries of one behaviour of the tag specification
MaxTagOps == 3
\* creations of one behaviour of the list specification; page sizes and offsets
\* range up to it
MaxListCreates == 3
\* store operations and import entries of one behaviour of the delete specification
MaxDeleteOps == 3
\* store operations and import entries of one behaviour of the prompt specification
MaxPromptOps == 3
\* creations of one behaviour of the detail specification
MaxDetailCreates == 3
\* requests of one behaviour of the upload specification
MaxUploads == 2
\* store operations and entries of one behaviour of the sharing specification
MaxShareOps == 3
\* entries of one import of the deferred-thumbnail specification
MaxDeferEntries == 3
\* entries of one import of the cyclic-reference specification
MaxCycleEntries == 3
\* entries of the imports of one behaviour of the copy specification
MaxCopyEntries == 3

-----------------------------------------------------------------------------
(* Ids.                                                                    *)

NoId == [kind |-> "none", n |-> 0]
LegacyId(k) == [kind |-> "legacy", n |-> k]
Uuid(k) == [kind |-> "uuid", n |-> k]

\* bool(value) of an id: None and "" are falsy
IdTruthy(i) == i.kind \in {"legacy", "uuid", "nonstr"}

-----------------------------------------------------------------------------
(* File names.                                                             *)

NoName == [null |-> TRUE, dir |-> "", stem |-> <<>>, ext |-> ""]
EmptyName == [null |-> FALSE, dir |-> "", stem |-> <<>>, ext |-> ""]
FileName(d, s, e) == [null |-> FALSE, dir |-> d, stem |-> s, ext |-> e]

NameTruthy(name) ==
    ~name.null /\ (name.dir # "" \/ name.stem # <<>> \/ name.ext # "")

SafeTokens ==
    {"a", "b", "t", "v", "e", "u", "gone", "_"} \cup {ToString(k) : k \in 0..99}

RECURSIVE SanitizeStem(_)
SanitizeStem(stem) ==
    IF stem = <<>> THEN <<>>
    ELSE <<IF Head(stem) \in SafeTokens THEN Head(stem) ELSE "_">>
            \o SanitizeStem(Tail(stem))

\* files.sanitize_storage_name: ok = FALSE stands for the ValueError; a name
\* that is only a directory ("../") has the base name ".." and is refused
sanitize_storage_name(name) ==
    IF ~NameTruthy(name) THEN [ok |-> FALSE, name |-> NoName]
    ELSE IF name.stem = <<>> /\ name.ext = "" THEN [ok |-> FALSE, name |-> NoName]
    ELSE [ok |-> TRUE, name |-> FileName("", SanitizeStem(name.stem), name.ext)]

\* str.lower() on a suffix
LowerExt(ext) ==
    CASE ext = ".PNG" -> ".png"
      [] ext = ".MP4" -> ".mp4"
      [] OTHER -> ext

ALLOWED_EXTENSIONS == {".png", ".jpg", ".jpeg", ".webp"}
VideoSuffixes == {".mp4", ".mov", ".webm", ".mkv"}

detect_media_type(file_name) ==
    IF LowerExt(file_name.ext) \in VideoSuffixes THEN "video" ELSE "image"

sanitize_optional_thumbnail(name) ==
    IF ~NameTruthy(name) THEN [ok |-> TRUE, name |-> NoName]
    ELSE sanitize_storage_name(name)

\* the k-th candidate of copy_into_images: k = 0 is the destination itself
Candidate(name, k) ==
    IF k = 0 THEN name
    ELSE FileName("", name.stem \o <<"_", ToString(k)>>, name.ext)

\* a variant that takes the name as it is given
FreeCandidate_Given(name, k, taken) == Candidate(name, k)

RECURSIVE FreeCandidate(_, _, _)
FreeCandidate(name, k, taken) ==
    IF Candidate(name, k) \notin taken THEN Candidate(name, k)
    ELSE FreeCandidate(name, k + 1, taken)

\* shutil.copy2(source, destination) and "return destination.name"
CopyTo(dir, source, dest) ==
    [name |-> dest,
     dir |-> [n \in DOMAIN dir \cup {dest} |-> IF n = dest THEN source ELSE dir[n]]]

\* files.copy_into_images: the stored name and the directory afterwards
copy_into_images(dir, source, target_name) ==
    CopyTo(dir, source,
           FreeCandidate(sanitize_storage_name(target_name).name, 0, DOMAIN dir))

-----------------------------------------------------------------------------
(* Prompt metadata.                                                        *)

NullPrompt == [kind |-> "null", items |-> <<>>, text |-> ""]
StrPrompt(s) == [kind |-> "str", items |-> <<>>, text |-> s]
DictPrompt == [kind |-> "dict", items |-> <<>>, text |-> ""]
ListPrompt(items) == [kind |-> "list", items |-> items, text |-> ""]

StrItem(s) == [type |-> "str", keys |-> {}, id |-> NoId, text |-> s]
RefItem(i) == [type |-> "dict", keys |-> {"id"}, id |-> i, text |-> ""]

\* prompt_meta.validate_prompt_meta_structure: TRUE when the value is returned,
\* FALSE when PromptMetaFormatError is raised
validate_prompt_meta_structure(value) ==
    CASE value.kind \in {"null", "str", "dict"} -> TRUE
      [] value.kind = "list" ->
            /\ Len(value.items) > 0
            /\ value.items[Len(value.items)].type = "str"
            /\ \A i \in 1..(Len(value.items) - 1) :
                  /\ value.items[i].type = "dict"
                  /\ value.items[i].keys = {"id"}
                  /\ value.items[i].id.kind \in {"legacy", "uuid"}
      [] OTHER -> FALSE

\* import_legacy_json.normalize_prompt
normalize_prompt(prompt) ==
    CASE prompt.kind = "null" ->
            [ok |-> TRUE, text |-> "", meta |-> NullPrompt, references |-> <<>>]
      [] prompt.kind = "str" ->
            [ok |-> TRUE, text |-> prompt.text, meta |-> prompt, references |-> <<>>]
      [] prompt.kind = "list" ->
            IF validate_prompt_meta_structure(prompt)
            THEN [ok |-> TRUE,
                  text |-> prompt.items[Len(prompt.items)].text,
                  meta |-> prompt,
                  references |-> SubSeq(prompt.items, 1, Len(prompt.items) - 1)]
            ELSE [ok |-> FALSE, text |-> "", meta |-> NullPrompt, references |-> <<>>]
      [] prompt.kind = "dict" ->
            [ok |-> TRUE, text |-> "", meta |-> prompt, references |-> <<>>]
      [] OTHER ->
            [ok |-> FALSE, text |-> "", meta |-> NullPrompt, references |-> <<>>]

-----------------------------------------------------------------------------
(* Tags.  A raw tag name is [pad, caps, word]: the word in lower case,     *)
(* whether the raw text has surrounding blanks, whether it has capitals.   *)

RawTag(p, c, w) == [pad |-> p, caps |-> c, word |-> w]

\* a variant that trims and keeps the capitals
normalize_tag_KeepsCase(name) == RawTag(FALSE, name.caps, name.word)

\* tags.normalize_tag: name.strip().lower()
normalize_tag(name) == RawTag(FALSE, FALSE, name.word)

TagWords == <<"nature", "scifi", "space">>

WordRank(w) == CHOOSE i \in 1..Len(TagWords) : TagWords[i] = w

\* sorted(set(...)) of normalized names
RECURSIVE SortedNames(_)
SortedNames(S) ==
    IF S = {} THEN <<>>
    ELSE LET m == CHOOSE x \in S : \A y \in S : WordRank(x.word) <= WordRank(y.word)
         IN  <<m>> \o SortedNames(S \ {m})

NormalizedNames(names) ==
    SortedNames({normalize_tag(names[i]) : i \in {j \in DOMAIN names : names[j].word # ""}})

NextTagId(table) ==
    IF table = {} THEN 1
    ELSE 1 + (CHOOSE m \in {t.id : t \in table} : \A t \in table : t.id <= m)

\* INSERT OR IGNORE INTO tag (name) VALUES (:name)
InsertOrIgnore(table, name) ==
    IF \E t \in table : t.name = name THEN table
    ELSE table \cup {[id |-> NextTagId(table), name |-> name]}

RECURSIVE InsertAll(_, _)
InsertAll(table, names) ==
    IF names = <<>> THEN table
    ELSE InsertAll(InsertOrIgnore(table, Head(names)), Tail(names))

\* "select(models.Tag).where(models.Tag.name == tag_name)" for each name
SelectTags(after, unique) ==
    [table |-> after,
     ids |-> {t.id : t \in {u \in after : \E i \in DOMAIN unique : unique[i] = u.name}}]

EnsureUnique(table, unique) == SelectTags(InsertAll(table, unique), unique)

\* tags.ensure_tags: the tag table afterwards and the ids of the rows returned
ensure_tags(table, names) == EnsureUnique(table, NormalizedNames(names))

-----------------------------------------------------------------------------
(* Ratings, in hundredths; dates.                                          *)

NoRating == [kind |-> "none", v |-> 0]
NumRating(v) == [kind |-> "num", v |-> v]
BadRating == [kind |-> "bad", v |-> 0]

\* the ratings with two decimals, in hundredths, whose float lies above the
\* midpoint of the two nearest tenths: round(value, 1) rounds them up (4.45
\* is 4.4500000000000002), the others down (4.35 is 4.3499999999999996)
TiesRoundedUp ==
    {5, 45, 55, 65, 75, 105, 135, 155, 175, 185, 235, 245, 275, 285,
     295, 335, 345, 375, 385, 395, 415, 445, 465, 475, 495}

\* a variant that keeps the second decimal
Round1_KeepsHundredths(v) == v

\* round(value, 1) of the float with the given hundredths
Round1(v) ==
    IF v % 10 < 5 THEN (v \div 10) * 10
    ELSE IF v % 10 > 5 THEN (v \div 10) * 10 + 10
    ELSE IF v \in TiesRoundedUp THEN (v \div 10) * 10 + 10
    ELSE (v \div 10) * 10

\* import_legacy_json.normalize_rating and ImageValidator._validate_rating
normalize_rating(raw) ==
    CASE raw.kind = "none" -> [ok |-> TRUE, rating |-> NoRating]
      [] raw.kind = "bad" -> [ok |-> FALSE, rating |-> NoRating]
      [] OTHER ->
            IF 0 <= raw.v /\ raw.v <= 500
            THEN [ok |-> TRUE, rating |-> NumRating(Round1(raw.v))]
            ELSE [ok |-> FALSE, rating |-> NoRating]

NoDate == [kind |-> "none", v |-> 0]

\* import_legacy_json.parse_datetime
parse_datetime(value) ==
    IF value.kind = "bad" THEN [ok |-> FALSE, date |-> NoDate]
    ELSE [ok |-> TRUE, date |-> value]

NoStr == [null |-> TRUE, s |-> ""]

-----------------------------------------------------------------------------
(* The Image model.                                                        *)

\* models.Image.__init__: ImageValidator validates prompt_meta and rating and
\* nothing else; id, created_at and updated_at come from the default factories
ValidatedImage(data, r, id, t) ==
    IF ~validate_prompt_meta_structure(data.prompt_meta) THEN
        [ok |-> FALSE, error |-> "InvalidPromptMeta", row |-> data]
    ELSE IF ~r.ok THEN
        [ok |-> FALSE, error |-> "InvalidRating", row |-> data]
    ELSE
        [ok |-> TRUE, error |-> "none",
         row |-> [id |-> id,
                  file_name |-> data.file_name,
                  media_type |-> data.media_type,
                  prompt_text |-> data.prompt_text,
                  prompt_meta |-> data.prompt_meta,
                  ai_model |-> data.ai_model,
                  notes |-> data.notes,
                  rating |-> r.rating,
                  thumbnail_file |-> data.thumbnail_file,
                  captured_at |-> data.captured_at,
                  created_at |-> t,
                  updated_at |-> t]]

ImageInit(data, id, t) == ValidatedImage(data, normalize_rating(data.rating), id, t)

-----------------------------------------------------------------------------
(* Legacy importer: conversion of one entry.                               *)

NoPayload ==
    [file_name |-> NoName, prompt_text |-> "", prompt_meta |-> NullPrompt,
     ai_model |-> NoStr, notes |-> NoStr, rating |-> NoRating,
     media_type |-> "image", thumbnail_file |-> NoName, captured_at |-> NoDate]

ConvertError(e) ==
    [ok |-> FALSE, error |-> e, payload |-> NoPayload, tags |-> <<>>,
     legacy_id |-> NoId, reference_dicts |-> <<>>, thumbnail_source |-> NoName]

\* the media type convert_entry settles on: declared, or detected from the name
EntryMediaType(entry, sanitized_name) ==
    IF entry.media_type = "" THEN detect_media_type(sanitized_name)
    ELSE entry.media_type

\* a variant that refuses no entry
VideoRefused_Never(media_type, thumbnail_file, references) == FALSE

\* the test of convert_entry that refuses a video entry
VideoRefused(media_type, thumbnail_file, references) ==
    media_type = "video" /\ thumbnail_file.null /\ references = <<>>

\* convert_entry from its normalized parts: prompt, file name, media type,
\* rating, thumbnail and date
Converted(entry, p, f, mt, r, th, d) ==
    IF ~p.ok THEN ConvertError("InvalidPromptMeta")
    ELSE IF ~f.ok THEN ConvertError("InvalidFileName")
    ELSE IF mt \notin {"image", "video"} THEN ConvertError("InvalidMediaType")
    ELSE IF ~r.ok THEN ConvertError("InvalidRating")
    ELSE IF ~th.ok THEN ConvertError("InvalidFileName")
    ELSE IF VideoRefused(mt, th.name, p.references)
         THEN ConvertError("MissingThumbnailOrReference")
    ELSE IF ~d.ok THEN ConvertError("InvalidDate")
    ELSE [ok |-> TRUE, error |-> "none",
          payload |-> [file_name |-> f.name,
                       prompt_text |-> p.text,
                       prompt_meta |-> p.meta,
                       ai_model |-> entry.ai_model,
                       notes |-> entry.notes,
                       rating |-> r.rating,
                       media_type |-> mt,
                       thumbnail_file |-> th.name,
                       captured_at |-> d.date],
          tags |-> NormalizedNames(entry.tags),
          legacy_id |-> entry.id,
          reference_dicts |-> p.references,
          thumbnail_source |->
              IF NameTruthy(th.name) THEN entry.thumbnail_file ELSE NoName]

ConvertedNamed(entry, p, f, r, th, d) ==
    Converted(entry, p, f, EntryMediaType(entry, f.name), r, th, d)

\* import_legacy_json.convert_entry
convert_entry(entry) ==
    ConvertedNamed(entry,
                   normalize_prompt(entry.prompt),
                   sanitize_storage_name(entry.file),
                   normalize_rating(entry.rating),
                   sanitize_optional_thumbnail(entry.thumbnail_file),
                   parse_datetime(entry.date))

\* the files the import's source directory holds
SourceFiles ==
    {FileName("", <<"a">>, ".png"), FileName("", <<"b">>, ".png"),
     FileName("", <<"t">>, ".png"), FileName("", <<"v">>, ".mp4"),
     FileName("sub/", <<"a">>, ".png"), FileName("../", <<"e">>, ".png")}

\* import_legacy_json._resolve_source_file
_resolve_source_file(relative_name) ==
    IF relative_name.dir = "../" THEN [ok |-> FALSE, error |-> "SourceEscapesDirectory"]
    ELSE IF relative_name \notin SourceFiles THEN [ok |-> FALSE, error |-> "SourceFileMissing"]
    ELSE [ok |-> TRUE, error |-> "none"]

-----------------------------------------------------------------------------
(* Legacy importer: the body of the loop of import_entries.                *)

Tables == [images |-> images, tags |-> tags, links |-> links]

Snapshot == [images |-> images, tags |-> tags, links |-> links, storage |-> storage]

NoRecord ==
    [image_id |-> NoId, legacy_id |-> NoId, reference_dicts |-> <<>>,
     has_explicit_thumbnail |-> FALSE, media_type |-> "image"]

\* "if not dry_run:" of import_entries: whether the entry's files are copied
CopiesFiles(dry) == ~dry

\* "if payload.get("thumbnail_file") and converted.thumbnail_source:"
HasThumbnailSource(converted) ==
    NameTruthy(converted.payload.thumbnail_file) /\ NameTruthy(converted.thumbnail_source)

EntryFailure(e, dir, session) ==
    [ok |-> FALSE, error |-> e, dir |-> dir, session |-> session,
     record |-> NoRecord, row |-> NoPayload]

\* session.add(image); session.flush(): the image row and its tag links
AddImage(session, row, tag_ids) ==
    [session EXCEPT
        !.images = [i \in DOMAIN session.images \cup {row.id} |->
                        IF i = row.id THEN row ELSE session.images[i]],
        !.links = session.links \cup {[image_id |-> row.id, tag_id |-> t] : t \in tag_ids}]

\* "image = models.Image(**payload, tags=tag_instances)" to session.refresh(image)
InsertStep(converted, image, dir, session, tag_ids) ==
    IF ~image.ok THEN EntryFailure(image.error, dir, session)
    ELSE [ok |-> TRUE, error |-> "none", dir |-> dir,
          session |-> AddImage(session, image.row, tag_ids),
          record |-> [image_id |-> image.row.id,
                      legacy_id |-> converted.legacy_id,
                      reference_dicts |-> converted.reference_dicts,
                      has_explicit_thumbnail |-> NameTruthy(image.row.thumbnail_file),
                      media_type |-> image.row.media_type],
          row |-> image.row]

\* "tag_instances = tag_service.ensure_tags(session, converted.tags)"
TagStep(converted, payload, dir, session, ensured, id, t) ==
    InsertStep(converted, ImageInit(payload, Uuid(id), t), dir,
               [session EXCEPT !.tags = ensured.table], ensured.ids)

\* the payload with the names the copies were stored under
StoredStep(converted, file_name, thumb, session, id, t) ==
    TagStep(converted,
            [converted.payload EXCEPT !.file_name = file_name,
                                      !.thumbnail_file = thumb.name],
            thumb.dir, session, ensure_tags(session.tags, converted.tags), id, t)

\* the thumbnail: resolved in the source directory and copied, when files are copied
ThumbStep(converted, dry, copied, thumb_source, session, id, t) ==
    IF CopiesFiles(dry) /\ HasThumbnailSource(converted)
    THEN IF ~thumb_source.ok
         THEN EntryFailure(thumb_source.error, copied.dir, session)
         ELSE StoredStep(converted, copied.name,
                         copy_into_images(copied.dir, converted.thumbnail_source,
                                          converted.payload.thumbnail_file),
                         session, id, t)
    ELSE StoredStep(converted, copied.name,
                    [name |-> converted.payload.thumbnail_file, dir |-> copied.dir],
                    session, id, t)

\* the media file: resolved, its extension checked, copied when files are copied
CopyStep(entry, converted, source, dry, dir, session, id, t) ==
    IF ~converted.ok THEN EntryFailure(converted.error, dir, session)
    ELSE IF ~source.ok THEN EntryFailure(source.error, dir, session)
    ELSE IF LowerExt(entry.file.ext) \notin ALLOWED_EXTENSIONS
         THEN EntryFailure("UnsupportedFileType", dir, session)
    ELSE ThumbStep(converted, dry,
                   IF CopiesFiles(dry)
                   THEN copy_into_images(dir, entry.file, converted.payload.file_name)
                   ELSE [name |-> converted.payload.file_name, dir |-> dir],
                   _resolve_source_file(converted.thumbnail_source),
                   session, id, t)

\* one pass of "for entry in entries:" up to session.refresh(image)
EntryStep(entry, dry, dir, session, id, t) ==
    CopyStep(entry, convert_entry(entry), _resolve_source_file(entry.file),
             dry, dir, session, id, t)

\* "if converted.legacy_id: legacy_lookup[converted.legacy_id] = {...}"
RegisterLegacy(lookup, legacy_id, row) ==
    IF IdTruthy(legacy_id)
    THEN [k \in DOMAIN lookup \cup {legacy_id} |->
            IF k = legacy_id
            THEN [id |-> row.id, file_name |-> row.file_name,
                  thumbnail_file |-> row.thumbnail_file]
            ELSE lookup[k]]
    ELSE lookup

\* a variant in which the pending rows outlive the exception
SessionClose_KeepsPending(committed, session) == session

\* leaving "with session_scope() as session:" on an exception: Session.close()
\* discards what the session did not commit
SessionClose(committed, session) == committed

\* a variant that commits in both modes
FinishSession_AlwaysCommits(dry, committed, session) == session

\* "if dry_run: session.rollback() else: session.commit()"
FinishSession(dry, committed, session) == IF dry THEN committed ELSE session

\* whether "for entry in entries:" gets through all of entries without raising
RECURSIVE Phase1Succeeds(_, _, _, _, _, _)
Phase1After(entries, dry, r, id, t) ==
    r.ok /\ Phase1Succeeds(Tail(entries), dry, r.dir, r.session, id + 1, t + 1)

Phase1Succeeds(entries, dry, dir, session, id, t) ==
    IF entries = <<>> THEN TRUE
    ELSE Phase1After(entries, dry, EntryStep(Head(entries), dry, dir, session, id, t),
                     id, t)

-----------------------------------------------------------------------------
(* Legacy importer: _apply_reference_updates.                              *)

\* a variant that leaves the legacy id in the rewritten reference
ResolveOne_KeepsLegacyId(ref, lookup) ==
    IF IdTruthy(ref.id) /\ ref.id \in DOMAIN lookup
    THEN <<[new_ref |-> ref, mapped |-> lookup[ref.id]]>>
    ELSE <<>>

\* a variant that keeps the references it cannot resolve
ResolveOne_KeepsUnresolved(ref, lookup) ==
    IF IdTruthy(ref.id) /\ ref.id \in DOMAIN lookup
    THEN <<[new_ref |-> [ref EXCEPT !.id = lookup[ref.id].id],
            mapped |-> lookup[ref.id]]>>
    ELSE <<[new_ref |-> ref,
            mapped |-> [id |-> NoId, file_name |-> NoName, thumbnail_file |-> NoName]]>>

\* one pass of the inner loop: nothing ("continue") or the rewritten reference
ResolveOne(ref, lookup) ==
    IF IdTruthy(ref.id) /\ ref.id \in DOMAIN lookup
    THEN <<[new_ref |-> [ref EXCEPT !.id = lookup[ref.id].id],
            mapped |-> lookup[ref.id]]>>
    ELSE <<>>

\* the inner loop "for ref in record.reference_dicts:": the references that
\* resolve, each with the lookup entry it resolved to
RECURSIVE ResolveRefs(_, _)
ResolveRefs(refs, lookup) ==
    IF refs = <<>> THEN <<>>
    ELSE ResolveOne(Head(refs), lookup) \o ResolveRefs(Tail(refs), lookup)

\* "first_source.get("thumbnail_file") or first_source.get("file_name")"
Replacement(first_source) ==
    IF NameTruthy(first_source.thumbnail_file) THEN first_source.thumbnail_file
    ELSE first_source.file_name

\* a variant that does not record the inherited thumbnail in the lookup
PropagateThumbnail_Skips(lookup, record, image, replacement) == lookup

\* "legacy_lookup.setdefault(record.legacy_id, {...})["thumbnail_file"] = replacement"
PropagateThumbnail(lookup, record, image, replacement) ==
    [k \in DOMAIN lookup \cup {record.legacy_id} |->
        IF k = record.legacy_id
        THEN IF k \in DOMAIN lookup
             THEN [lookup[k] EXCEPT !.thumbnail_file = replacement]
             ELSE [id |-> record.image_id, file_name |-> image.file_name,
                   thumbnail_file |-> replacement]
        ELSE lookup[k]]

\* the record's image with the rewritten prompt_meta and, when the record
\* declared no thumbnail, the replacement as its thumbnail
Rewritten(image, resolved, inherits, replacement) ==
    [image EXCEPT
        !.prompt_meta = ListPrompt([i \in DOMAIN resolved |-> resolved[i].new_ref]
                                   \o <<StrItem(image.prompt_text)>>),
        !.thumbnail_file = IF inherits THEN replacement ELSE @]

\* the body of the loop after the references were resolved
ApplyResolved(record, image, session, lookup, resolved, inherits, replacement) ==
    [session |-> [session EXCEPT !.images[record.image_id] =
                        Rewritten(image, resolved, inherits, replacement)],
     lookup |-> IF inherits /\ IdTruthy(record.legacy_id) /\ NameTruthy(replacement)
                THEN PropagateThumbnail(lookup, record, image, replacement)
                ELSE lookup]

ApplyRefs(record, session, lookup, resolved) ==
    IF resolved = <<>> THEN [session |-> session, lookup |-> lookup]
    ELSE ApplyResolved(record, session.images[record.image_id], session, lookup,
                       resolved, ~record.has_explicit_thumbnail,
                       Replacement(resolved[1].mapped))

\* one pass of "for record in records:"
ApplyOne(record, session, lookup) ==
    IF record.reference_dicts = <<>> \/ record.image_id \notin DOMAIN session.images
    THEN [session |-> session, lookup |-> lookup]
    ELSE ApplyRefs(record, session, lookup, ResolveRefs(record.reference_dicts, lookup))

-----------------------------------------------------------------------------
(* Inputs.                                                                 *)

Entry(id, file, prompt, tgs, mt, thumb) ==
    [id |-> id, file |-> file, prompt |-> prompt, tags |-> tgs,
     rating |-> NoRating, date |-> NoDate, ai_model |-> NoStr, notes |-> NoStr,
     media_type |-> mt, thumbnail_file |-> thumb]

A_png == FileName("", <<"a">>, ".png")
T_png == FileName("", <<"t">>, ".png")
V_mp4 == FileName("", <<"v">>, ".mp4")
Gone_png == FileName("", <<"gone">>, ".png")
Escaping_png == FileName("../", <<"e">>, ".png")

\* legacy ids 1 and 2 are declared by entries, 3 by none
RefPrompts ==
    {StrPrompt("p"),
     ListPrompt(<<RefItem(LegacyId(1)), StrItem("q1")>>),
     ListPrompt(<<RefItem(LegacyId(3)), RefItem(LegacyId(2)), RefItem(LegacyId(1)),
                  StrItem("q2")>>)}

\* entries that differ in declared id, references and declared thumbnail
RefEntries ==
    {Entry(i, A_png, p, <<>>, "", th) :
        i \in {NoId, LegacyId(1), LegacyId(2)}, p \in RefPrompts, th \in {NoName, T_png}}

\* entries that differ in their files: present, missing, escaping, video
FileEntries ==
    {Entry(NoId, f, StrPrompt("p"), tg, "", th) :
        f \in {A_png, V_mp4, Gone_png, Escaping_png},
        tg \in {<<>>, <<RawTag(TRUE, TRUE, "scifi")>>},
        th \in {NoName, T_png, Gone_png}}

\* entries that differ in media type, thumbnail and references
VideoEntries ==
    {Entry(LegacyId(1), f, p, <<>>, mt, th) :
        f \in {A_png, V_mp4},
        p \in {StrPrompt("p"), ListPrompt(<<RefItem(LegacyId(1)), StrItem("q1")>>)},
        mt \in {"", "image", "video"},
        th \in {NoName, EmptyName, T_png}}

\* the fields of schemas.ImageCreate
CreateData(file, mt, prompt, r, thumb, tgs) ==
    [file_name |-> file, media_type |-> mt, prompt_text |-> "p", prompt_meta |-> prompt,
     ai_model |-> NoStr, notes |-> NoStr, rating |-> r, thumbnail_file |-> thumb,
     captured_at |-> NoDate, tags |-> tgs]

\* creations that differ in media type, thumbnail, rating and tags
CreateInputs ==
    {CreateData(f, mt, StrPrompt("p"), r, th, tg) :
        f \in {A_png, V_mp4},
        mt \in {"image", "video"},
        r \in {NoRating, NumRating(450), NumRating(600)},
        th \in {NoName, EmptyName, T_png},
        tg \in {<<>>, <<RawTag(TRUE, TRUE, "scifi")>>}}

-----------------------------------------------------------------------------
(* The store: crud.create_image.                                           *)

\* schemas.ImageCreate(...): the validation of ImageBase, TRUE when it passes
ImageCreate(data) ==
    /\ data.media_type \in {"image", "video"}
    /\ validate_prompt_meta_structure(data.prompt_meta)
    /\ data.rating.kind \in {"none", "num"}
    /\ data.rating.kind = "num" => (0 <= data.rating.v /\ data.rating.v <= 500)

NoOp ==
    [op |-> "none", ok |-> TRUE, error |-> "none", id |-> NoId,
     input |-> CreateData(NoName, "image", NullPrompt, NoRating, NoName, <<>>),
     output |-> <<>>]

\* "image.tags = ensure_tags(session, data.tags)" to session.commit()
CreateCommit(table, row, ensured) ==
    [ok |-> TRUE, error |-> "none", id |-> row.id,
     tables |-> AddImage([table EXCEPT !.tags = ensured.table], row, ensured.ids)]

CreateInserted(table, data, image) ==
    IF ~image.ok
    THEN [ok |-> FALSE, error |-> image.error, id |-> NoId, tables |-> table]
    ELSE CreateCommit(table, image.row, ensure_tags(table.tags, data.tags))

\* crud.create_image on the payload the schema accepted
create_image(table, data, id, t) ==
    IF ~ImageCreate(data)
    THEN [ok |-> FALSE, error |-> "ValidationError", id |-> NoId, tables |-> table]
    ELSE CreateInserted(table, data, ImageInit(data, Uuid(id), t))

-----------------------------------------------------------------------------
(* Actions.                                                                *)

\* a session that has not begun
SessionIdle ==
    [pc |-> "idle", names |-> <<>>, k |-> 1, pending |-> {}, got |-> {},
     error |-> "none", raced |-> FALSE]

NoTables == [images |-> [i \in {} |-> NoPayload], tags |-> {}, links |-> {}]

Init ==
    /\ images = [i \in {} |-> NoPayload]
    /\ tags = {}
    /\ links = {}
    /\ storage = [n \in {} |-> NoName]
    /\ nextId = 1
    /\ now = 1
    /\ pc = "idle"
    /\ dry_run = FALSE
    /\ batch = <<>>
    /\ tx = NoTables
    /\ imported_records = <<>>
    /\ legacy_lookup = [k \in {} |-> NoRecord]
    /\ idx = 1
    /\ before = [images |-> [i \in {} |-> NoPayload], tags |-> {}, links |-> {},
                 storage |-> [n \in {} |-> NoName]]
    /\ outcome = "none"
    /\ error = "none"
    /\ last_op = NoOp
    /\ sessions = [s \in 1..2 |-> SessionIdle]
    /\ writer = 0

\* import_entries is called: "with session_scope() as session:"
ImportStart(modes, again, max) ==
    /\ pc = "idle" \/ (again /\ pc \in {"done", "failed"})
    /\ now <= max
    /\ \E d \in modes : dry_run' = d
    /\ pc' = "phase1"
    /\ batch' = <<>>
    /\ tx' = Tables
    /\ imported_records' = <<>>
    /\ legacy_lookup' = [k \in {} |-> NoRecord]
    /\ idx' = 1
    /\ before' = Snapshot
    /\ outcome' = "running"
    /\ error' = "none"
    /\ last_op' = [NoOp EXCEPT !.op = "import"]
    /\ UNCHANGED <<images, tags, links, storage, nextId, now>>
    /\ UNCHANGED <<sessions, writer>>

\* what the loop does with the result r of one pass: go on, or leave the
\* session's "with" block with the exception
EntryOutcome(entry, r, closed) ==
    /\ batch' = Append(batch, entry)
    /\ storage' = r.dir
    /\ now' = now + 1
    /\ IF r.ok
       THEN /\ tx' = r.session
            /\ nextId' = nextId + 1
            /\ imported_records' = Append(imported_records, r.record)
            /\ legacy_lookup' = RegisterLegacy(legacy_lookup, r.record.legacy_id, r.row)
            /\ UNCHANGED <<images, tags, links, pc, outcome, error>>
       ELSE /\ images' = closed.images
            /\ tags' = closed.tags
            /\ links' = closed.links
            /\ tx' = closed
            /\ pc' = "failed"
            /\ outcome' = "error"
            /\ error' = r.error
            /\ UNCHANGED <<nextId, imported_records, legacy_lookup>>

EntryResult(entry, r) == EntryOutcome(entry, r, SessionClose(Tables, r.session))

\* the loop takes the next entry of the batch
ImportEntry(universe, max) ==
    /\ pc = "phase1"
    /\ now <= max
    /\ \E entry \in universe :
          EntryResult(entry, EntryStep(entry, dry_run, storage, tx, nextId, now))
    /\ UNCHANGED <<dry_run, idx, before, last_op>>
    /\ UNCHANGED <<sessions, writer>>

\* the batch is exhausted: _apply_reference_updates is called
EndOfEntries ==
    /\ pc = "phase1"
    /\ pc' = "phase2"
    /\ idx' = 1
    /\ UNCHANGED <<images, tags, links, storage, nextId, now, dry_run, batch, tx,
                   imported_records, legacy_lookup, before, outcome, error, last_op>>
    /\ UNCHANGED <<sessions, writer>>

Reconciled(r) ==
    /\ tx' = r.session
    /\ legacy_lookup' = r.lookup

\* a variant of the pass that stays on the record it visited
ApplyReferenceUpdate_Revisits ==
    /\ pc = "phase2"
    /\ idx <= Len(imported_records)
    /\ Reconciled(ApplyOne(imported_records[idx], tx, legacy_lookup))
    /\ idx' = idx
    /\ UNCHANGED <<images, tags, links, storage, nextId, now, pc, dry_run, batch,
                   imported_records, before, outcome, error, last_op>>
    /\ UNCHANGED <<sessions, writer>>

\* one pass of the loop of _apply_reference_updates
ApplyReferenceUpdate ==
    /\ pc = "phase2"
    /\ idx <= Len(imported_records)
    /\ Reconciled(ApplyOne(imported_records[idx], tx, legacy_lookup))
    /\ idx' = idx + 1
    /\ UNCHANGED <<images, tags, links, storage, nextId, now, pc, dry_run, batch,
                   imported_records, before, outcome, error, last_op>>
    /\ UNCHANGED <<sessions, writer>>

Committed(final) ==
    /\ images' = final.images
    /\ tags' = final.tags
    /\ links' = final.links
    /\ tx' = final

\* the end of import_entries: rollback or commit, and the session is closed
ImportFinish ==
    /\ pc = "phase2"
    /\ idx > Len(imported_records)
    /\ Committed(FinishSession(dry_run, Tables, tx))
    /\ pc' = "done"
    /\ outcome' = "ok"
    /\ UNCHANGED <<storage, nextId, now, dry_run, batch, imported_records,
                   legacy_lookup, idx, before, error, last_op>>
    /\ UNCHANGED <<sessions, writer>>

Created(data, r) ==
    /\ images' = r.tables.images
    /\ tags' = r.tables.tags
    /\ links' = r.tables.links
    /\ nextId' = IF r.ok THEN nextId + 1 ELSE nextId
    /\ last_op' = [op |-> "create", ok |-> r.ok, error |-> r.error, id |-> r.id,
                   input |-> data, output |-> <<>>]

\* a record is created through the store
\* no import is running
StoreIdle == pc \in {"idle", "done", "failed"}

CreateFrom(universe, max) ==
    /\ StoreIdle
    /\ now <= max
    /\ \E data \in universe : Created(data, create_image(Tables, data, nextId, now))
    /\ now' = now + 1
    /\ before' = Snapshot
    /\ UNCHANGED <<storage, pc, dry_run, batch, tx, imported_records, legacy_lookup,
                   idx, outcome, error>>
    /\ UNCHANGED <<sessions, writer>>

CreateImage(max) == CreateFrom(CreateInputs, max)

NextStore == CreateImage(MaxCreates)

NextRefs ==
    \/ ImportStart({FALSE}, FALSE, MaxRefEntries)
    \/ ImportEntry(RefEntries, MaxRefEntries)
    \/ EndOfEntries
    \/ ApplyReferenceUpdate
    \/ ImportFinish

NextFiles ==
    \/ ImportStart(BOOLEAN, TRUE, MaxFileEntries)
    \/ ImportEntry(FileEntries, MaxFileEntries)
    \/ EndOfEntries
    \/ ApplyReferenceUpdate
    \/ ImportFinish

NextVideo ==
    \/ ImportStart(BOOLEAN, TRUE, MaxVideoEntries)
    \/ ImportEntry(VideoEntries, MaxVideoEntries)
    \/ EndOfEntries
    \/ ApplyReferenceUpdate
    \/ ImportFinish

SpecRefs == Init /\ [][NextRefs]_vars
SpecFiles == Init /\ [][NextFiles]_vars
SpecVideo == Init /\ [][NextVideo]_vars
SpecStore == Init /\ [][NextStore]_vars

-----------------------------------------------------------------------------
(* Vocabulary of the properties.  After a successful import the k-th       *)
(* imported record was made from the k-th entry of the batch.              *)

ImportOk == pc = "done" /\ outcome = "ok"
ImportCommitted == ImportOk /\ ~dry_run
ImportFailed == pc = "failed" /\ outcome = "error"

EntryRefs(e) ==
    IF e.prompt.kind = "list" /\ Len(e.prompt.items) > 0
    THEN SubSeq(e.prompt.items, 1, Len(e.prompt.items) - 1)
    ELSE <<>>

EntryText(e) ==
    IF e.prompt.kind = "list" /\ Len(e.prompt.items) > 0
    THEN e.prompt.items[Len(e.prompt.items)].text
    ELSE e.prompt.text

\* some entry of batch b declares legacy id l
Declares(b, l) == l.kind = "legacy" /\ \E k \in DOMAIN b : b[k].id = l

\* the last entry of b that declares l
LastDeclaring(b, l) ==
    CHOOSE k \in DOMAIN b : b[k].id = l /\ \A m \in DOMAIN b : b[m].id = l => m <= k

\* the positions of the references of entry e that some entry of b declares
ResolvablePositions(b, e) ==
    {j \in DOMAIN EntryRefs(e) : Declares(b, EntryRefs(e)[j].id)}

\* where the j-th reference of e lands among the resolvable ones
PositionAmongResolvable(b, e, j) ==
    Cardinality({i \in ResolvablePositions(b, e) : i <= j})

FirstResolvable(b, e) ==
    CHOOSE j \in ResolvablePositions(b, e) : \A i \in ResolvablePositions(b, e) : j <= i

\* the entry of b that the first resolvable reference of e names
FirstReferenced(b, e) == LastDeclaring(b, EntryRefs(e)[FirstResolvable(b, e)].id)

IdOf(k) == imported_records[k].image_id

StoredMeta(k) == images[IdOf(k)].prompt_meta

\* the stored prompt_meta of record d carries the id of record k at the place
\* of reference j and ends with the entry's prompt text
CarriesIdOf(d, j, k) ==
    /\ StoredMeta(d).kind = "list"
    /\ Len(StoredMeta(d).items) = Cardinality(ResolvablePositions(batch, batch[d])) + 1
    /\ StoredMeta(d).items[PositionAmongResolvable(batch, batch[d], j)].id = IdOf(k)
    /\ StoredMeta(d).items[Len(StoredMeta(d).items)] = StrItem(EntryText(batch[d]))

-----------------------------------------------------------------------------
(* C1.  Original statement: after a successful non-dry-run import, for     *)
(* every entry D with a reference whose id is the declared legacy id of    *)
(* another entry B (before or after D), the stored promptMeta of D carries *)
(* the new id of B's record in place of that reference, and ends with D's  *)
(* prompt text.                                                            *)
C1_EveryDeclarerIsCarried ==
    ImportCommitted =>
        \A d \in DOMAIN batch : \A b \in DOMAIN batch \ {d} :
            \A j \in DOMAIN EntryRefs(batch[d]) :
                (batch[b].id.kind = "legacy" /\ EntryRefs(batch[d])[j].id = batch[b].id)
                    => CarriesIdOf(d, j, b)

(* C1 as amended: the same, for B the last entry of the batch that         *)
(* declares that legacy id.                                                *)
C1_LastDeclarerIsCarried ==
    ImportCommitted =>
        \A d \in DOMAIN batch : \A b \in DOMAIN batch \ {d} :
            \A j \in DOMAIN EntryRefs(batch[d]) :
                (/\ batch[b].id.kind = "legacy"
                 /\ EntryRefs(batch[d])[j].id = batch[b].id
                 /\ b = LastDeclaring(batch, batch[b].id))
                    => CarriesIdOf(d, j, b)

\* an import committed in which D precedes the entry B it references
C1_Witness ==
    /\ ImportCommitted
    /\ \E d \in DOMAIN batch : \E b \in DOMAIN batch :
          /\ d < b
          /\ batch[b].id.kind = "legacy"
          /\ \E j \in DOMAIN EntryRefs(batch[d]) :
                /\ EntryRefs(batch[d])[j].id = batch[b].id
                /\ CarriesIdOf(d, j, b)

-----------------------------------------------------------------------------
(* Vocabulary of phase 2: the pass of the loop over record idx.            *)

ReconcilesRecord == pc = "phase2" /\ idx <= Len(imported_records) /\ idx' = idx + 1

\* the thumbnail a record offers to those that reference it: its thumbnail
\* file, or its file name when it has none
ThumbnailOrFileName(row) ==
    IF NameTruthy(row.thumbnail_file) THEN row.thumbnail_file ELSE row.file_name

DeclaresThumbnail(e) == NameTruthy(e.thumbnail_file)

UniqueLegacyIds(b) ==
    \A k, m \in DOMAIN b : (b[k].id.kind = "legacy" /\ b[k].id = b[m].id) => k = m

(* C2.  In phase 2, the pass over a record that declared no thumbnail and  *)
(* has a resolvable reference sets its thumbnail_file to the thumbnail     *)
(* file of the record its first resolvable reference names, or to that     *)
(* record's file name when it has no thumbnail; the pass over a record     *)
(* that declared a thumbnail leaves the thumbnail unchanged.               *)
C2_InheritsFromFirstResolved ==
    [][ReconcilesRecord =>
        IF DeclaresThumbnail(batch[idx])
        THEN tx'.images[IdOf(idx)].thumbnail_file = tx.images[IdOf(idx)].thumbnail_file
        ELSE ResolvablePositions(batch, batch[idx]) # {} =>
                tx'.images[IdOf(idx)].thumbnail_file =
                    ThumbnailOrFileName(tx.images[IdOf(FirstReferenced(batch, batch[idx]))])
      ]_vars

\* the same passes in the batches whose declared legacy ids are distinct
C2_InheritsWhenIdsAreUnique ==
    [][(ReconcilesRecord /\ UniqueLegacyIds(batch)) =>
        IF DeclaresThumbnail(batch[idx])
        THEN tx'.images[IdOf(idx)].thumbnail_file = tx.images[IdOf(idx)].thumbnail_file
        ELSE ResolvablePositions(batch, batch[idx]) # {} =>
                tx'.images[IdOf(idx)].thumbnail_file =
                    ThumbnailOrFileName(tx.images[IdOf(FirstReferenced(batch, batch[idx]))])
      ]_vars

-----------------------------------------------------------------------------
(* Vocabulary of C3: entry c declared no thumbnail and its first           *)
(* resolvable reference names entry b; b declared no thumbnail and its     *)
(* first resolvable reference names a third entry.                         *)

InheritsVia(b, e) ==
    /\ ~DeclaresThumbnail(e)
    /\ ResolvablePositions(b, e) # {}

Chain(c, b) ==
    /\ c # b
    /\ InheritsVia(batch, batch[c])
    /\ FirstReferenced(batch, batch[c]) = b
    /\ InheritsVia(batch, batch[b])
    /\ FirstReferenced(batch, batch[b]) \notin {b, c}

EndsWithThumbnailOf(c, b) ==
    /\ NameTruthy(images[IdOf(b)].thumbnail_file)
    /\ images[IdOf(c)].thumbnail_file = images[IdOf(b)].thumbnail_file

-----------------------------------------------------------------------------
(* Vocabulary of C4.                                                       *)

HasUnresolvable(b, e) ==
    \E j \in DOMAIN EntryRefs(e) : ~Declares(b, EntryRefs(e)[j].id)

ResolvableRefs(b, e) == SelectSeq(EntryRefs(e), LAMBDA r : Declares(b, r.id))

\* the resolvable references of e, in their order, each with the id of the
\* record of the last entry declaring it, then the prompt text of e
ExpectedMeta(b, e) ==
    ListPrompt([i \in DOMAIN ResolvableRefs(b, e) |->
                    RefItem(IdOf(LastDeclaring(b, ResolvableRefs(b, e)[i].id)))]
               \o <<StrItem(EntryText(e))>>)

(* C4.  A reference whose legacy id no entry of the batch declares never   *)
(* makes the import fail: phase 2 raises nothing.  When another reference  *)
(* of the same record resolves, the rewritten prompt_meta holds exactly    *)
(* the resolvable references, in their original order, then the text.      *)
C4_UnresolvableAreDropped ==
    /\ pc = "phase2" => (outcome = "running" /\ error = "none")
    /\ ImportCommitted =>
          \A d \in DOMAIN batch :
              (HasUnresolvable(batch, batch[d]) /\ ResolvablePositions(batch, batch[d]) # {})
                  => StoredMeta(d) = ExpectedMeta(batch, batch[d])

\* an import committed with a record that lost an unresolvable reference
\* and kept two resolvable ones
C4_Witness ==
    /\ ImportCommitted
    /\ \E d \in DOMAIN batch :
          /\ HasUnresolvable(batch, batch[d])
          /\ Cardinality(ResolvablePositions(batch, batch[d])) = 2
          /\ Len(StoredMeta(d).items) = 3
          /\ Len(StoredMeta(d).items) < Len(batch[d].prompt.items)

-----------------------------------------------------------------------------
(* Vocabulary of the dry-run and failure properties.                       *)

StoreAsBefore ==
    /\ images = before.images
    /\ tags = before.tags
    /\ links = before.links

StorageAsBefore == storage = before.storage

ImportEnded == pc \in {"done", "failed"}

\* the import of the consumed batch with dry_run = False, started from the
\* state the ended call started from, completes without error
RealRunSucceeds ==
    Phase1Succeeds(batch, FALSE, before.storage,
                   [images |-> before.images, tags |-> before.tags,
                    links |-> before.links], nextId, now)

(* C5.  A dry run that completes without error leaves the records, the     *)
(* tags, the tag associations and the managed storage as they were before  *)
(* the run.                                                                *)
C5_DryRunLeavesNothing ==
    (ImportOk /\ dry_run) => (StoreAsBefore /\ StorageAsBefore)

\* a dry run completed over a tagged entry with a thumbnail, after an
\* earlier import had committed records
C5_Witness ==
    /\ ImportOk /\ dry_run
    /\ DOMAIN before.images # {}
    /\ \E k \in DOMAIN batch :
          batch[k].tags # <<>> /\ NameTruthy(batch[k].thumbnail_file)
    /\ StoreAsBefore /\ StorageAsBefore

(* C6.  A dry run completes without error if and only if the same import   *)
(* with dry_run = False, started from the same state, completes without    *)
(* error.                                                                  *)
C6_DryRunPredictsRealRun ==
    (ImportEnded /\ dry_run) => (ImportOk <=> RealRunSucceeds)

(* C7.  When an entry fails in phase 1, the store holds no record, tag or  *)
(* tag association made by the call once it has returned.                  *)
C7_FailureLeavesNoRows ==
    ImportFailed => StoreAsBefore

\* a real import failed at its second entry or later, after a tagged entry
\* had been inserted in the session
C7_Witness ==
    /\ ImportFailed /\ ~dry_run
    /\ Len(batch) >= 2
    /\ batch[1].tags # <<>>
    /\ StoreAsBefore

(* C8.  When an entry fails in phase 1 of a real import, the managed       *)
(* storage holds no file copied by the call once it has returned.          *)
C8_FailureLeavesNoFiles ==
    (ImportFailed /\ ~dry_run) => StorageAsBefore

-----------------------------------------------------------------------------
(* Vocabulary of C9.  The entries of SpecVideo are valid in everything but *)
(* their media type, thumbnail and references.                             *)

\* the media type of the entry is VIDEO, declared or inferred from the extension
EntryIsVideo(e) ==
    \/ e.media_type = "video"
    \/ e.media_type = "" /\ LowerExt(e.file.ext) \in VideoSuffixes

NamesNoThumbnail(e) == ~NameTruthy(e.thumbnail_file)

\* the import ended with the error of convert_entry on its k-th entry
ConversionRefused(k) ==
    /\ k = Len(batch)
    /\ ImportFailed
    /\ error = "MissingThumbnailOrReference"

(* C9.  The conversion of a VIDEO entry that names no thumbnail succeeds   *)
(* if and only if the entry has at least one reference; with neither, the  *)
(* conversion raises and the import fails.                                 *)
C9_VideoNeedsThumbnailOrReference ==
    \A k \in DOMAIN batch :
        (EntryIsVideo(batch[k]) /\ NamesNoThumbnail(batch[k]))
            => (EntryRefs(batch[k]) = <<>> <=> ConversionRefused(k))

\* an import that took a video entry with a reference and no thumbnail and
\* then failed on a video entry with neither
C9_Witness ==
    /\ Len(batch) = 2
    /\ EntryIsVideo(batch[1]) /\ NamesNoThumbnail(batch[1])
    /\ EntryRefs(batch[1]) # <<>>
    /\ Len(imported_records) = 1
    /\ EntryIsVideo(batch[2]) /\ NamesNoThumbnail(batch[2])
    /\ EntryRefs(batch[2]) = <<>>
    /\ ConversionRefused(2)

-----------------------------------------------------------------------------
(* Vocabulary of C10.                                                      *)

CreatedVideo == last_op.op = "create" /\ last_op.input.media_type = "video"

CreateRefused == ~last_op.ok /\ images = before.images

CreateStored ==
    /\ last_op.ok
    /\ last_op.id \in DOMAIN images
    /\ last_op.id \notin DOMAIN before.images

(* C10.  Creating a VIDEO record with an empty or absent thumbnail_file    *)
(* fails with a validation error and adds no record; the same creation     *)
(* with a thumbnail_file succeeds.                                         *)
C10_VideoRequiresThumbnail ==
    CreatedVideo =>
        IF NameTruthy(last_op.input.thumbnail_file)
        THEN ImageCreate(last_op.input) => CreateStored
        ELSE CreateRefused

-----------------------------------------------------------------------------
(* The store: crud.update_image.  A partial payload is the set "has" of    *)
(* the fields it carries (model_dump(exclude_unset=True)) and a value for  *)
(* each field.                                                             *)

UpdateData(has, pm, r, mt, th, tg, nt) ==
    [has |-> has, prompt_text |-> "p2", prompt_meta |-> pm, ai_model |-> NoStr,
     notes |-> nt, rating |-> r, media_type |-> mt, thumbnail_file |-> th,
     captured_at |-> NoDate, tags |-> tg]

\* schemas.ImageUpdate(...): the validation of the payload, TRUE when it passes
ImageUpdate(data) ==
    /\ "prompt_meta" \in data.has => validate_prompt_meta_structure(data.prompt_meta)
    /\ "rating" \in data.has =>
          /\ data.rating.kind \in {"none", "num"}
          /\ data.rating.kind = "num" => (0 <= data.rating.v /\ data.rating.v <= 500)

\* updates.get(field, getattr(image, field))
Effective(image, data, f) == IF f \in data.has THEN data[f] ELSE image[f]

\* a variant that tests the payload's own values, not the merged ones
ThumbnailRule_PayloadOnly(image, data) ==
    /\ {"media_type", "thumbnail_file"} \cap data.has # {}
    /\ "media_type" \in data.has /\ data.media_type = "video"
    /\ ~NameTruthy(data.thumbnail_file)

\* the test before "raise ValueError("videos require thumbnail_file")"
ThumbnailRule(image, data) ==
    /\ {"media_type", "thumbnail_file"} \cap data.has # {}
    /\ Effective(image, data, "media_type") = "video"
    /\ ~NameTruthy(Effective(image, data, "thumbnail_file"))

UpdateRefused(e, data) == [ok |-> FALSE, error |-> e, data |-> data]

\* crud._validate_and_normalize_updates with the validated rating r
NormalizedUpdates(image, data, r) ==
    IF ~validate_prompt_meta_structure(Effective(image, data, "prompt_meta"))
    THEN UpdateRefused("ValidationError", data)
    ELSE IF ~r.ok THEN UpdateRefused("ValidationError", data)
    ELSE IF ThumbnailRule(image, data) THEN UpdateRefused("MissingThumbnail", data)
    ELSE [ok |-> TRUE, error |-> "none",
          data |-> [data EXCEPT !.rating = IF "rating" \in data.has THEN r.rating ELSE @]]

_validate_and_normalize_updates(image, data) ==
    NormalizedUpdates(image, data, normalize_rating(Effective(image, data, "rating")))

ValidatedFields == {"prompt_meta", "rating", "media_type", "thumbnail_file"}

\* a variant that also overwrites the prompt text of every updated record
UpdatedRow_TouchesPromptText(image, data, t) ==
    [f \in DOMAIN image |->
        IF f = "updated_at" THEN t
        ELSE IF f = "prompt_text" THEN data.prompt_text
        ELSE IF f \in data.has THEN data[f]
        ELSE image[f]]

\* "for field, value in update_payload.items(): setattr(image, field, value)"
\* and "image.updated_at = datetime.utcnow()"
UpdatedRow(image, data, t) ==
    [f \in DOMAIN image |->
        IF f = "updated_at" THEN t
        ELSE IF f \in data.has THEN data[f]
        ELSE image[f]]

\* "image.tags = ensure_tags(session, tag_names)": the links of the image replaced
Retagged(table, id, ensured) ==
    [table EXCEPT
        !.tags = ensured.table,
        !.links = {l \in table.links : l.image_id # id}
                    \cup {[image_id |-> id, tag_id |-> g] : g \in ensured.ids}]

UpdateStored(table, id, row) ==
    [ok |-> TRUE, error |-> "none", id |-> id,
     tables |-> [table EXCEPT !.images[id] = row]]

\* the update from the payload that passed the validator, to session.commit()
UpdateApplied(table, id, v, t) ==
    IF ~v.ok THEN [ok |-> FALSE, error |-> v.error, id |-> id, tables |-> table]
    ELSE UpdateStored(IF "tags" \in v.data.has
                      THEN Retagged(table, id, ensure_tags(table.tags, v.data.tags))
                      ELSE table,
                      id, UpdatedRow(table.images[id], v.data, t))

\* crud.update_image
update_image(table, id, data, t) ==
    IF ~ImageUpdate(data)
    THEN [ok |-> FALSE, error |-> "ValidationError", id |-> id, tables |-> table]
    ELSE IF id \notin DOMAIN table.images
    THEN [ok |-> FALSE, error |-> "NotFound", id |-> id, tables |-> table]
    ELSE UpdateApplied(table, id,
                       IF ValidatedFields \cap data.has # {}
                       THEN _validate_and_normalize_updates(table.images[id], data)
                       ELSE [ok |-> TRUE, error |-> "none", data |-> data],
                       t)

-----------------------------------------------------------------------------
(* The update specification: records are created and updated.              *)

Scifi == RawTag(TRUE, TRUE, "scifi")
Space == RawTag(FALSE, TRUE, "space")

\* an image, a video with a thumbnail and tags, a video without a thumbnail
UpdateSeeds ==
    {CreateData(A_png, "image", StrPrompt("p"), NoRating, NoName, <<>>),
     CreateData(V_mp4, "video", StrPrompt("p"), NumRating(450), T_png, <<Scifi>>),
     CreateData(V_mp4, "video", StrPrompt("p"), NoRating, NoName, <<>>)}

Payload(has, mt, th) ==
    UpdateData(has, StrPrompt("p"), NumRating(435), mt, th, <<Space>>,
               [null |-> FALSE, s |-> "n"])

\* partial payloads that differ in the fields they carry
UpdatePayloads ==
    {Payload(h, mt, th) :
        h \in {{}, {"notes"}, {"tags"}, {"rating"}, {"rating", "notes"}},
        mt \in {"image"}, th \in {NoName}}
    \cup {Payload(h, mt, th) :
            h \in {{"media_type"}, {"thumbnail_file"}, {"media_type", "thumbnail_file"},
                   {"thumbnail_file", "tags"}},
            mt \in {"image", "video"}, th \in {NoName, EmptyName, T_png}}
    \cup {UpdateData({"prompt_meta", "media_type"}, ListPrompt(<<>>), NoRating, "video",
                     NoName, <<>>, NoStr),
          UpdateData({"prompt_meta"}, ListPrompt(<<RefItem(Uuid(1)), StrItem("q")>>),
                     NoRating, "image", NoName, <<>>, NoStr),
          UpdateData({"rating"}, StrPrompt("p"), NumRating(600), "image", NoName,
                     <<>>, NoStr),
          UpdateData({"rating"}, StrPrompt("p"), NoRating, "image", NoName, <<>>, NoStr)}

\* an id that no record has
UnknownId == Uuid(0)

Updated(id, data, r) ==
    /\ images' = r.tables.images
    /\ tags' = r.tables.tags
    /\ links' = r.tables.links
    /\ last_op' = [op |-> "update", ok |-> r.ok, error |-> r.error, id |-> id,
                   input |-> data, output |-> <<>>]

\* a record is updated through the store
UpdateFrom(universe, max) ==
    /\ StoreIdle
    /\ now <= max
    /\ \E id \in DOMAIN images \cup {UnknownId} : \E data \in universe :
          Updated(id, data, update_image(Tables, id, data, now))
    /\ now' = now + 1
    /\ before' = Snapshot
    /\ UNCHANGED <<storage, nextId, pc, dry_run, batch, tx, imported_records,
                   legacy_lookup, idx, outcome, error>>
    /\ UNCHANGED <<sessions, writer>>

NextUpdate ==
    \/ CreateFrom(UpdateSeeds, MaxUpdateOps)
    \/ UpdateFrom(UpdatePayloads, MaxUpdateOps)

SpecUpdate == Init /\ [][NextUpdate]_vars

-----------------------------------------------------------------------------
(* Vocabulary of the update properties: the last operation was an update   *)
(* of a record that existed.                                               *)

UpdatedExisting == last_op.op = "update" /\ last_op.id \in DOMAIN before.images

OldRow == before.images[last_op.id]

NewRow == images[last_op.id]

CarriesThumbnailFields == {"media_type", "thumbnail_file"} \cap last_op.input.has # {}

\* the record's values merged with the payload give a video without a thumbnail
MergedVideoWithoutThumbnail ==
    /\ (IF "media_type" \in last_op.input.has
        THEN last_op.input.media_type ELSE OldRow.media_type) = "video"
    /\ ~NameTruthy(IF "thumbnail_file" \in last_op.input.has
                   THEN last_op.input.thumbnail_file ELSE OldRow.thumbnail_file)

(* C11.  An update that carries media_type or thumbnail_file is rejected   *)
(* when the merged values give a video without a thumbnail, and is         *)
(* rejected by that rule only then; a rejected update leaves the fields,   *)
(* the tags and updated_at of the record as they were; an update that      *)
(* carries neither field is never rejected by the rule.                    *)
C11_MergedVideoNeedsThumbnail ==
    UpdatedExisting =>
        /\ (CarriesThumbnailFields /\ MergedVideoWithoutThumbnail) => ~last_op.ok
        /\ last_op.error = "MissingThumbnail" =>
                (CarriesThumbnailFields /\ MergedVideoWithoutThumbnail)
        /\ ~last_op.ok => StoreAsBefore

\* the thumbnail of a stored video was cleared by an update, which was refused
C11_Witness ==
    /\ UpdatedExisting
    /\ OldRow.media_type = "video" /\ NameTruthy(OldRow.thumbnail_file)
    /\ last_op.input.has = {"thumbnail_file"}
    /\ last_op.error = "MissingThumbnail"
    /\ NewRow = OldRow
    /\ StoreAsBefore

\* the names of the tags linked to record id in the given tables
TagNamesOf(tag_rows, link_rows, id) ==
    {g.name : g \in {u \in tag_rows :
                        [image_id |-> id, tag_id |-> u.id] \in link_rows}}

\* the payload's tag names trimmed and lowercased, the empty ones dropped
PayloadTagNames(names) ==
    {RawTag(FALSE, FALSE, names[i].word) : i \in {j \in DOMAIN names : names[j].word # ""}}

\* the value the payload gives a field: a rating is stored rounded
PayloadValue(data, f) ==
    IF f = "rating" /\ data.rating.kind = "num" THEN NumRating(Round1(data.rating.v))
    ELSE data[f]

(* C12.  A successful update changes only the fields present in the        *)
(* payload: every other field keeps its value, the tag set is unchanged    *)
(* when tags is absent and is exactly the normalized payload tags when     *)
(* present, id and created_at never change, updated_at becomes later, and  *)
(* the other records are unchanged.                                        *)
C12_UpdateChangesOnlyPayloadFields ==
    (UpdatedExisting /\ last_op.ok) =>
        /\ \A f \in DOMAIN OldRow \ {"updated_at"} :
              NewRow[f] = IF f \in last_op.input.has
                          THEN PayloadValue(last_op.input, f) ELSE OldRow[f]
        /\ NewRow.id = OldRow.id /\ NewRow.created_at = OldRow.created_at
        /\ NewRow.updated_at > OldRow.updated_at
        /\ TagNamesOf(tags, links, last_op.id) =
              IF "tags" \in last_op.input.has
              THEN PayloadTagNames(last_op.input.tags)
              ELSE TagNamesOf(before.tags, before.links, last_op.id)
        /\ \A i \in DOMAIN before.images \ {last_op.id} :
              /\ i \in DOMAIN images /\ images[i] = before.images[i]
              /\ TagNamesOf(tags, links, i) = TagNamesOf(before.tags, before.links, i)

\* the notes and rating of a tagged, rated video were updated and nothing else
C12_Witness ==
    /\ UpdatedExisting /\ last_op.ok
    /\ last_op.input.has = {"rating", "notes"}
    /\ OldRow.rating = NumRating(450) /\ NewRow.rating = NumRating(430)
    /\ NewRow.notes # OldRow.notes
    /\ NewRow.prompt_text = OldRow.prompt_text
    /\ NewRow.thumbnail_file = OldRow.thumbnail_file
    /\ TagNamesOf(tags, links, last_op.id) = {RawTag(FALSE, FALSE, "scifi")}
    /\ NewRow.updated_at > OldRow.updated_at

-----------------------------------------------------------------------------
(* The validator specification: validate_prompt_meta_structure is applied  *)
(* to a value.                                                             *)

\* a reference object with the keys "id" and "weight"
WeightedRef(i) == [type |-> "dict", keys |-> {"id", "weight"}, id |-> i, text |-> ""]

\* a string, references with a good id, with an extra key, with the id "",
\* with an id that is no string, an object without id, a number
PromptItems ==
    {StrItem("t"),
     RefItem(LegacyId(1)),
     WeightedRef(LegacyId(1)),
     RefItem([kind |-> "empty", n |-> 0]),
     RefItem([kind |-> "nonstr", n |-> 0]),
     [type |-> "dict", keys |-> {"not_id"}, id |-> NoId, text |-> ""],
     [type |-> "other", keys |-> {}, id |-> NoId, text |-> ""]}

\* null, a string, an object, a number and the lists of up to MaxPromptLen items
PromptValues ==
    {NullPrompt, StrPrompt("t"), DictPrompt, [kind |-> "other", items |-> <<>>, text |-> ""]}
    \cup {ListPrompt(l) : l \in UNION {[1..k -> PromptItems] : k \in 0..MaxPromptLen}}

InitValidator ==
    /\ Init!1 /\ Init!2 /\ Init!3 /\ Init!4 /\ Init!5 /\ Init!6 /\ Init!7 /\ Init!8
    /\ Init!9 /\ Init!10 /\ Init!11 /\ Init!12 /\ Init!13 /\ Init!14 /\ Init!15
    /\ Init!16 /\ Init!18 /\ Init!19
    /\ \E value \in PromptValues :
          last_op = [op |-> "value", ok |-> TRUE, error |-> "none", id |-> NoId,
                     input |-> value, output |-> <<>>]

\* validate_prompt_meta_structure is called on the value: it is returned
\* (output) or PromptMetaFormatError is raised
ValidatePromptMeta ==
    /\ last_op.op = "value"
    /\ last_op' =
          IF validate_prompt_meta_structure(last_op.input)
          THEN [last_op EXCEPT !.op = "validate", !.output = <<last_op.input>>]
          ELSE [last_op EXCEPT !.op = "validate", !.ok = FALSE,
                               !.error = "PromptMetaFormatError"]
    /\ UNCHANGED <<images, tags, links, storage, nextId, now, pc, dry_run, batch, tx,
                   imported_records, legacy_lookup, idx, before, outcome, error>>
    /\ UNCHANGED <<sessions, writer>>

NextValidator == ValidatePromptMeta

SpecValidator == InitValidator /\ [][NextValidator]_vars

\* a reference: an object containing an id that is a non-empty string
IsReference(item) ==
    /\ item.type = "dict"
    /\ "id" \in item.keys
    /\ item.id.kind \in {"legacy", "uuid"}

\* the values the validator is to accept
WellFormedPromptMeta(value) ==
    \/ value.kind \in {"null", "str", "dict"}
    \/ /\ value.kind = "list"
       /\ Len(value.items) > 0
       /\ value.items[Len(value.items)].type = "str"
       /\ \A i \in 1..(Len(value.items) - 1) : IsReference(value.items[i])

(* C13.  The validator returns its input unchanged for null, a string, an  *)
(* object, and for a list exactly when it is non-empty, ends with a string *)
(* and every preceding element is an object containing an id that is a     *)
(* non-empty string, extra keys allowed; every other value is rejected.    *)
C13_ValidatorAcceptsWellFormed ==
    last_op.op = "validate" =>
        IF WellFormedPromptMeta(last_op.input)
        THEN last_op.ok /\ last_op.output = <<last_op.input>>
        ELSE ~last_op.ok /\ last_op.error = "PromptMetaFormatError"

-----------------------------------------------------------------------------
(* The rating specification: records are created, updated and imported     *)
(* with ratings that are absent, valid, out of range or not numeric.       *)

\* no rating, 4.35, 6.0, -0.1 and a value that is no number
Ratings == {NoRating, NumRating(435), NumRating(600), NumRating(0 - 10), BadRating}

RatingCreates ==
    {CreateData(A_png, "image", StrPrompt("p"), r, NoName, <<>>) : r \in Ratings}

RatingPayloads ==
    {UpdateData({"rating"}, StrPrompt("p"), r, "image", NoName, <<>>, NoStr) : r \in Ratings}
    \cup {UpdateData({"notes"}, StrPrompt("p"), NoRating, "image", NoName, <<>>,
                     [null |-> FALSE, s |-> "n"])}

RatingEntries ==
    {[Entry(NoId, A_png, StrPrompt("p"), <<>>, "", NoName) EXCEPT !.rating = r] :
        r \in Ratings}

NextRating ==
    \/ CreateFrom(RatingCreates, MaxRatingOps)
    \/ UpdateFrom(RatingPayloads, MaxRatingOps)
    \/ ImportStart({FALSE}, TRUE, MaxRatingOps)
    \/ ImportEntry(RatingEntries, MaxRatingOps)
    \/ EndOfEntries
    \/ ApplyReferenceUpdate
    \/ ImportFinish

SpecRating == Init /\ [][NextRating]_vars

\* absent, or in [0, 5] with at most one decimal
StorableRating(r) ==
    \/ r.kind = "none"
    \/ r.kind = "num" /\ 0 <= r.v /\ r.v <= 500 /\ r.v % 10 = 0

\* not numeric, or outside [0, 5]
InvalidRating(r) ==
    \/ r.kind = "bad"
    \/ r.kind = "num" /\ (r.v < 0 \/ r.v > 500)

(* C14.  Every stored rating is absent or a value in [0, 5] with at most   *)
(* one decimal; a creation, an update or an import entry that carries a    *)
(* rating that is not numeric or lies outside [0, 5] fails and stores      *)
(* nothing.                                                                *)
C14_RatingsAreStorable ==
    /\ \A i \in DOMAIN images : StorableRating(images[i].rating)
    /\ \A i \in DOMAIN tx.images : StorableRating(tx.images[i].rating)
    /\ (last_op.op = "create" /\ InvalidRating(last_op.input.rating))
          => (~last_op.ok /\ StoreAsBefore)
    /\ (last_op.op = "update" /\ "rating" \in last_op.input.has
            /\ InvalidRating(last_op.input.rating))
          => (~last_op.ok /\ StoreAsBefore)
    /\ last_op.op = "import" =>
          \A k \in DOMAIN batch :
              InvalidRating(batch[k].rating)
                  => (k = Len(batch) /\ ImportFailed /\ StoreAsBefore)

\* an import that carried the rating 4.35 has committed, two records are
\* stored and each of them holds 4.3
C14_Witness ==
    /\ ImportCommitted /\ last_op.op = "import"
    /\ Cardinality(DOMAIN images) = 2
    /\ \E k \in DOMAIN batch : batch[k].rating = NumRating(435)
    /\ \A i \in DOMAIN images : images[i].rating = NumRating(430)

-----------------------------------------------------------------------------
(* The tag specification: tags arrive through creations, updates, imports  *)
(* and direct calls of tags.ensure_tags in a session that commits.         *)

ScifiPlain == RawTag(FALSE, FALSE, "scifi")
\* a name of blanks only
Blank == RawTag(TRUE, FALSE, "")

TagLists ==
    {<<>>, <<Scifi>>, <<ScifiPlain, Scifi>>, <<Blank>>, <<Space, ScifiPlain>>,
     <<Blank, Space>>}

TagCreates ==
    {CreateData(A_png, "image", StrPrompt("p"), NoRating, NoName, tg) :
        tg \in {<<Scifi>>, <<Blank, Space>>}}

TagPayloads ==
    {UpdateData({"tags"}, StrPrompt("p"), NoRating, "image", NoName, tg, NoStr) :
        tg \in {<<>>, <<ScifiPlain, Scifi>>, <<Blank>>}}

TagEntries ==
    {Entry(NoId, A_png, StrPrompt("p"), tg, "", NoName) :
        tg \in {<<Scifi>>, <<Space, ScifiPlain>>, <<Blank>>}}

\* the names ensure_tags looks up: normalized, non-empty, without repetition
WantedNames(names) ==
    {normalize_tag(names[i]) : i \in {j \in DOMAIN names : names[j].word # ""}}

Ensured(names, r) ==
    /\ tags' = r.table
    /\ last_op' = [op |-> "ensure", ok |-> TRUE, error |-> "none", id |-> NoId,
                   input |-> [tags |-> names], output |-> <<r.ids>>]

\* "with session_scope() as session: ensure_tags(session, names)"
EnsureTags(universe, max) ==
    /\ StoreIdle
    /\ now <= max
    /\ \E names \in universe : Ensured(names, ensure_tags(tags, names))
    /\ now' = now + 1
    /\ before' = Snapshot
    /\ UNCHANGED <<images, links, storage, nextId, pc, dry_run, batch, tx,
                   imported_records, legacy_lookup, idx, outcome, error>>
    /\ UNCHANGED <<sessions, writer>>

NextTags ==
    \/ CreateFrom(TagCreates, MaxTagOps)
    \/ UpdateFrom(TagPayloads, MaxTagOps)
    \/ EnsureTags(TagLists, MaxTagOps)
    \/ ImportStart({FALSE}, TRUE, MaxTagOps)
    \/ ImportEntry(TagEntries, MaxTagOps)
    \/ EndOfEntries
    \/ ApplyReferenceUpdate
    \/ ImportFinish

SpecTags == Init /\ [][NextTags]_vars

\* a name as the tag table may hold it: not empty, trimmed, in lower case
Canonical(name) == name.word # "" /\ ~name.pad /\ ~name.caps

\* every row of the table is canonical and no two rows share a name or an id
TagTableOk(table) ==
    /\ \A t \in table : Canonical(t.name)
    /\ \A t, u \in table : (t.name = u.name \/ t.id = u.id) => t = u

EnsuredIds == last_op.output[1]

(* C15.  Every Tag row has a non-empty, trimmed, lowercased name and no    *)
(* two Tag rows share a name.  Resolve-or-create returns, for each name    *)
(* whose normalized form exists already, the existing row (same id); it    *)
(* adds a row only for a normalized name that did not exist, and a name    *)
(* that normalizes to the empty string produces no tag.                    *)
C15_TagsAreCanonicalAndUnique ==
    /\ TagTableOk(tags)
    /\ TagTableOk(tx.tags)
    /\ last_op.op = "ensure" =>
          /\ before.tags \subseteq tags
          /\ \A t \in tags \ before.tags :
                /\ t.name \in WantedNames(last_op.input.tags)
                /\ \A u \in before.tags : u.name # t.name
          /\ EnsuredIds = {t.id : t \in {u \in tags : u.name \in WantedNames(last_op.input.tags)}}
          /\ Cardinality(EnsuredIds) = Cardinality(WantedNames(last_op.input.tags))
          /\ \A t \in before.tags :
                t.name \in WantedNames(last_op.input.tags) => t.id \in EnsuredIds

\* ensure_tags was called with "scifi" and " SciFi " when the row scifi
\* existed: it returned that row and added none
C15_Witness ==
    /\ last_op.op = "ensure"
    /\ last_op.input.tags = <<ScifiPlain, Scifi>>
    /\ \E t \in before.tags : t.name = ScifiPlain /\ EnsuredIds = {t.id}
    /\ tags = before.tags
    /\ Cardinality(tags) = 2

\* ensure_tags was called with a name of blanks only: it returned nothing and
\* added nothing
C15_BlankWitness ==
    /\ last_op.op = "ensure"
    /\ last_op.input.tags = <<Blank>>
    /\ EnsuredIds = {}
    /\ tags = before.tags

-----------------------------------------------------------------------------
(* Two sessions run tags.ensure_tags concurrently, each in its own         *)
(* transaction on the SQLite database of database.engine.  A session       *)
(* reads the committed rows and its own uncommitted ones.  SQLite admits   *)
(* one writer at a time: the first INSERT of a transaction takes the       *)
(* write lock, which the transaction keeps until it commits or rolls       *)
(* back; another session's INSERT waits meanwhile (the holder is taken to  *)
(* finish within the driver's busy timeout).                               *)

\* what session s reads
Visible(s) == tags \cup sessions[s].pending

\* the write lock is free or held by s
CanWrite(s) == writer \in {0, s}

NameTaken(table, name) == \E t \in table : t.name = name

\* a variant without "OR IGNORE": a plain INSERT INTO tag (name)
InsertStatement_Plain(table, name) ==
    IF NameTaken(table, name)
    THEN [table |-> table, error |-> "IntegrityError"]
    ELSE [table |-> table \cup {[id |-> NextTagId(table), name |-> name]},
          error |-> "none"]

\* "session.exec(sqlite_insert(models.Tag).values(name=tag_name)
\*  .prefix_with("OR IGNORE"))"
InsertStatement(table, name) ==
    [table |-> InsertOrIgnore(table, name), error |-> "none"]

Active(s) == sessions[s].pc \in {"insert", "read", "commit"}

Begun(unique, other_active) ==
    [SessionIdle EXCEPT !.pc = IF unique = <<>> THEN "commit" ELSE "insert",
                        !.names = unique,
                        !.raced = other_active]

\* a session opens and ensure_tags computes "unique"
RaceBegin(s, universe) ==
    /\ sessions[s].pc = "idle"
    /\ \E names \in universe :
          sessions' = [sessions EXCEPT
                          ![s] = Begun(NormalizedNames(names), Active(3 - s)),
                          ![3 - s].raced = @ \/ Active(3 - s)]
    /\ UNCHANGED <<images, tags, links, storage, nextId, now, pc, dry_run, batch, tx,
                   imported_records, legacy_lookup, idx, before, outcome, error,
                   last_op, writer>>

\* the session after its INSERT: the statement raised and the session rolled
\* back, or the row (if any) is pending and the read-back comes next
Inserted(session, r) ==
    IF r.error # "none"
    THEN [session EXCEPT !.pc = "failed", !.error = r.error, !.pending = {}]
    ELSE [session EXCEPT !.pc = "read", !.pending = r.table \ tags]

SessionInserts(s, r) ==
    /\ sessions' = [sessions EXCEPT ![s] = Inserted(sessions[s], r)]
    /\ writer' = IF r.error # "none" THEN 0 ELSE s

\* the INSERT of the loop of ensure_tags
RaceInsert(s) ==
    /\ sessions[s].pc = "insert"
    /\ CanWrite(s)
    /\ SessionInserts(s, InsertStatement(Visible(s), sessions[s].names[sessions[s].k]))
    /\ UNCHANGED <<images, tags, links, storage, nextId, now, pc, dry_run, batch, tx,
                   imported_records, legacy_lookup, idx, before, outcome, error,
                   last_op>>

\* "select(models.Tag).where(models.Tag.name == tag_name)": the ids found
ReadBack(table, name) == {t.id : t \in {u \in table : u.name = name}}

\* "if tag is None: continue", "tags.append(tag)", and the next name
AfterRead(session, found) ==
    [session EXCEPT !.got = @ \cup found,
                    !.k = @ + 1,
                    !.pc = IF session.k = Len(session.names) THEN "commit" ELSE "insert"]

\* the read-back of the loop of ensure_tags
RaceRead(s) ==
    /\ sessions[s].pc = "read"
    /\ sessions' = [sessions EXCEPT
                       ![s] = AfterRead(sessions[s],
                                        ReadBack(Visible(s),
                                                 sessions[s].names[sessions[s].k]))]
    /\ UNCHANGED <<images, tags, links, storage, nextId, now, pc, dry_run, batch, tx,
                   imported_records, legacy_lookup, idx, before, outcome, error,
                   last_op, writer>>

\* the unique constraints of table tag (name, and the primary key)
Conflicts(committed, pending) ==
    \E p \in pending : \E t \in committed : t.name = p.name \/ t.id = p.id

CommitFails(s) ==
    /\ sessions' = [sessions EXCEPT ![s].pc = "failed",
                                    ![s].error = "IntegrityError",
                                    ![s].pending = {}]
    /\ tags' = tags

CommitSucceeds(s) ==
    /\ sessions' = [sessions EXCEPT ![s].pc = "done", ![s].pending = {}]
    /\ tags' = tags \cup sessions[s].pending

\* session.commit()
RaceCommit(s) ==
    /\ sessions[s].pc = "commit"
    /\ IF Conflicts(tags, sessions[s].pending) THEN CommitFails(s) ELSE CommitSucceeds(s)
    /\ writer' = IF writer = s THEN 0 ELSE writer
    /\ UNCHANGED <<images, links, storage, nextId, now, pc, dry_run, batch, tx,
                   imported_records, legacy_lookup, idx, before, outcome, error,
                   last_op>>

NextRace ==
    \E s \in 1..2 :
        \/ RaceBegin(s, TagLists)
        \/ RaceInsert(s)
        \/ RaceRead(s)
        \/ RaceCommit(s)

SpecRace == Init /\ [][NextRace]_vars

\* a name both sessions resolve
SharedNames ==
    {sessions[1].names[i] : i \in DOMAIN sessions[1].names}
        \cap {sessions[2].names[i] : i \in DOMAIN sessions[2].names}

RowsNamed(name) == {t \in tags : t.name = name}

\* session s has read back every name it has gone past
GotAll(s) ==
    \A i \in DOMAIN sessions[s].names :
        i < sessions[s].k => ReadBack(Visible(s), sessions[s].names[i]) # {}
                             /\ ReadBack(Visible(s), sessions[s].names[i])
                                    \subseteq sessions[s].got

-----------------------------------------------------------------------------
(* The store: crud.list_images.  The texts a search reads are sequences    *)
(* of characters; a date is [kind, v] with kind "date" and v a day.        *)

Date(v) == [kind |-> "date", v |-> v]
Text(s) == [null |-> FALSE, s |-> s]

\* str.lower() on one character of the model's alphabet
Lower(c) == IF c = "A" THEN "a" ELSE IF c = "B" THEN "b" ELSE IF c = "C" THEN "c" ELSE c

LowerSeq(s) == [i \in DOMAIN s |-> Lower(s[i])]

RECURSIVE LStrip(_)
LStrip(s) == IF s # <<>> /\ Head(s) = " " THEN LStrip(Tail(s)) ELSE s

RECURSIVE RStrip(_)
RStrip(s) ==
    IF s # <<>> /\ s[Len(s)] = " " THEN RStrip(SubSeq(s, 1, Len(s) - 1)) ELSE s

\* str.strip()
Strip(s) == RStrip(LStrip(s))

\* SQL "text LIKE pattern": % stands for any run of characters, _ for any one
RECURSIVE Like(_, _)
Like(text, pattern) ==
    IF pattern = <<>> THEN text = <<>>
    ELSE IF Head(pattern) = "%"
    THEN Like(text, Tail(pattern)) \/ (text # <<>> /\ Like(Tail(text), pattern))
    ELSE IF text = <<>> THEN FALSE
    ELSE IF Head(pattern) = "_" THEN Like(Tail(text), Tail(pattern))
    ELSE Head(text) = Head(pattern) /\ Like(Tail(text), Tail(pattern))

\* "func.lower(column).like(like_value)" on a nullable column: NULL matches nothing
ColumnLike(column, like_value) ==
    ~column.null /\ Like(LowerSeq(column.s), like_value)

\* crud.ImageFilters
ImageFilters(q, tgs, rmin, rmax, dfrom, dto, limit, offset, mt) ==
    [q |-> q, tags |-> tgs, rating_min |-> rmin, rating_max |-> rmax,
     date_from |-> dfrom, date_to |-> dto, limit |-> limit, offset |-> offset,
     media_type |-> mt]

\* "normalized_q = filters.q.strip().lower() if filters.q else None"; <<>> when
\* the search is not applied
NormalizedQ(q) == IF q.null THEN <<>> ELSE LowerSeq(Strip(q.s))

LikeValue(normalized_q) == <<"%">> \o normalized_q \o <<"%">>

MatchesLike(row, like_value) ==
    \/ Like(LowerSeq(row.prompt_text), like_value)
    \/ ColumnLike(row.notes, like_value)
    \/ ColumnLike(row.ai_model, like_value)

\* _apply_filters: "if normalized_q:"
MatchesQ(row, normalized_q) ==
    normalized_q = <<>> \/ MatchesLike(row, LikeValue(normalized_q))

\* _apply_filters: rating_min, rating_max (a NULL rating passes no comparison)
MatchesRating(row, f) ==
    /\ f.rating_min.kind = "none"
          \/ (row.rating.kind = "num" /\ row.rating.v >= f.rating_min.v)
    /\ f.rating_max.kind = "none"
          \/ (row.rating.kind = "num" /\ row.rating.v <= f.rating_max.v)

\* _apply_filters: date_from, date_to
MatchesDates(row, f) ==
    /\ f.date_from.kind = "none"
          \/ (row.captured_at.kind = "date" /\ row.captured_at.v >= f.date_from.v)
    /\ f.date_to.kind = "none"
          \/ (row.captured_at.kind = "date" /\ row.captured_at.v <= f.date_to.v)

\* crud._normalized_tags, as a set
NormalizedTagSet(names) ==
    {normalize_tag(names[i]) : i \in {j \in DOMAIN names : names[j].word # ""}}

\* a variant with "HAVING count(...) >= 1"
MatchesTags_Any(table, id, normalized_tags) ==
    normalized_tags = {}
        \/ TagNamesOf(table.tags, table.links, id) \cap normalized_tags # {}

\* _apply_filters: "HAVING count(distinct tag.name) == len(normalized_tags)"
MatchesTags(table, id, normalized_tags) ==
    normalized_tags = {}
        \/ Cardinality(TagNamesOf(table.tags, table.links, id) \cap normalized_tags)
              = Cardinality(normalized_tags)

\* _apply_filters: media_type ("" when the filter is absent)
MatchesMedia(row, f) == f.media_type = "" \/ row.media_type = f.media_type

\* the filters other than q and tags
MatchesOther(row, f) == MatchesRating(row, f) /\ MatchesDates(row, f) /\ MatchesMedia(row, f)

\* crud._apply_filters: the ids of the rows the statement selects
_apply_filters(table, f) ==
    {id \in DOMAIN table.images :
        /\ MatchesQ(table.images[id], NormalizedQ(f.q))
        /\ MatchesOther(table.images[id], f)
        /\ MatchesTags(table, id, NormalizedTagSet(f.tags))}

\* "order_by(captured_at.desc().nullslast(), created_at.desc())"
ComesBefore(a, b) ==
    IF a.captured_at.kind # b.captured_at.kind THEN a.captured_at.kind = "date"
    ELSE IF a.captured_at.v # b.captured_at.v THEN a.captured_at.v > b.captured_at.v
    ELSE a.created_at > b.created_at

RECURSIVE Ordered(_, _)
Ordered(rows, ids) ==
    IF ids = {} THEN <<>>
    ELSE LET first == CHOOSE i \in ids :
                         \A j \in ids \ {i} : ComesBefore(rows[i], rows[j])
         IN  <<first>> \o Ordered(rows, ids \ {first})

Min(a, b) == IF a <= b THEN a ELSE b
Max(a, b) == IF a >= b THEN a ELSE b

\* ".offset(filters.offset).limit(filters.limit)"
Page(ordered, limit, offset) ==
    SubSeq(ordered, offset + 1, Min(Len(ordered), offset + limit))

\* a variant that counts the rows of the page
CountMatches_OfPage(table, f) ==
    Len(Page(Ordered(table.images, _apply_filters(table, f)), f.limit, f.offset))

\* "select(func.count()).select_from(count_subquery)"
CountMatches(table, f) == Cardinality(_apply_filters(table, f))

\* crud.list_images: the ids of the items, in order, and the total
list_images(table, f) ==
    [items |-> Page(Ordered(table.images, _apply_filters(table, f)), f.limit, f.offset),
     total |-> CountMatches(table, f)]

-----------------------------------------------------------------------------
(* The list specification: records are created and the store is listed.    *)

Nature == RawTag(FALSE, FALSE, "nature")

ListSeed(prompt_text, notes, ai_model, r, captured_at, tgs) ==
    [CreateData(A_png, "image", StrPrompt("p"), r, NoName, tgs) EXCEPT
        !.prompt_text = prompt_text, !.notes = notes, !.ai_model = ai_model,
        !.captured_at = captured_at]

\* "abc" tagged scifi and space; "Ab" with the notes "a_c" tagged scifi;
\* "c" with the model "xAB b" and no tag
ListSeeds ==
    {ListSeed(<<"a", "b", "c">>, NoStr, NoStr, NumRating(450), Date(2), <<Scifi, Space>>),
     ListSeed(<<"A", "b">>, Text(<<"a", "_", "c">>), NoStr, NoRating, NoDate, <<Scifi>>),
     ListSeed(<<"c">>, NoStr, Text(<<"x", "A", "B", " ", "b">>), NumRating(300), Date(1),
              <<>>)}

NoQ == NoStr

\* a filter on q and tags that asks for every match
Search(q, tgs) ==
    ImageFilters(q, tgs, NoRating, NoRating, NoDate, NoDate, MaxListCreates + 1, 0, "")

Queries ==
    {NoQ, Text(<<>>), Text(<<"a", "b">>), Text(<<"A", "B">>), Text(<<"b", "c">>),
     Text(<<"x">>), Text(<<"a", "_", "c">>), Text(<<"%">>), Text(<<" ", "b">>),
     Text(<<" ">>)}

TagFilters ==
    {<<>>, <<Scifi>>, <<ScifiPlain, Scifi>>, <<Space, Scifi>>, <<Scifi, Space, Space>>,
     <<Blank>>, <<Nature>>, <<Space, Nature>>}

\* filters that differ in q, in tags, in the other criteria and in the page
ListFilters ==
    {Search(q, <<>>) : q \in Queries}
    \cup {Search(q, tg) : q \in {NoQ, Text(<<"a", "b">>)}, tg \in TagFilters}
    \cup {ImageFilters(NoQ, tg, NoRating, NoRating, NoDate, NoDate, l, o, "") :
            tg \in {<<>>, <<Scifi>>}, l \in 0..MaxListCreates, o \in 0..MaxListCreates}
    \cup {ImageFilters(NoQ, <<Scifi>>, NumRating(400), NoRating, NoDate, NoDate,
                       MaxListCreates, 0, ""),
          ImageFilters(Text(<<"c">>), <<>>, NoRating, NumRating(400), Date(1), Date(1),
                       MaxListCreates, 0, "image"),
          ImageFilters(NoQ, <<>>, NoRating, NoRating, NoDate, NoDate,
                       MaxListCreates, 0, "video")}

\* the store is listed
ListImages(universe) ==
    /\ StoreIdle
    /\ \E f \in universe :
          last_op' = [op |-> "list", ok |-> TRUE, error |-> "none", id |-> NoId,
                      input |-> f, output |-> <<list_images(Tables, f)>>]
    /\ before' = Snapshot
    /\ UNCHANGED <<images, tags, links, storage, nextId, now, pc, dry_run, batch, tx,
                   imported_records, legacy_lookup, idx, outcome, error, sessions,
                   writer>>

NextList ==
    \/ CreateFrom(ListSeeds, MaxListCreates)
    \/ ListImages(ListFilters)

SpecList == Init /\ [][NextList]_vars

Listed == last_op.op = "list"
ListedItems == {last_op.output[1].items[i] : i \in DOMAIN last_op.output[1].items}
ListedTotal == last_op.output[1].total

\* the list asked for every match: first page, limit above the number of records
AsksForAll ==
    last_op.input.offset = 0 /\ last_op.input.limit >= Cardinality(DOMAIN images)

\* the names of the tags filter after normalization and deduplication
RequestedTags(f) == PayloadTagNames(f.tags)

CarriesEvery(id, names) == names \subseteq TagNamesOf(tags, links, id)

PassesAllButTags(id, f) ==
    MatchesQ(images[id], NormalizedQ(f.q)) /\ MatchesOther(images[id], f)

(* C17.  A list with a non-empty tags filter returns exactly the records,  *)
(* among those passing the other filters, that carry every tag of the      *)
(* filter after normalization and deduplication; a record carrying only    *)
(* some of them is not returned, and repeating a tag or changing its case  *)
(* in the filter does not change the result.                               *)
C17_TagsFilterIsConjunctive ==
    (Listed /\ RequestedTags(last_op.input) # {}) =>
        /\ ListedItems \subseteq
              {id \in DOMAIN images : CarriesEvery(id, RequestedTags(last_op.input))}
        /\ AsksForAll =>
              ListedItems = {id \in DOMAIN images :
                                /\ PassesAllButTags(id, last_op.input)
                                /\ CarriesEvery(id, RequestedTags(last_op.input))}
        /\ ListedTotal = Cardinality({id \in DOMAIN images :
                                /\ PassesAllButTags(id, last_op.input)
                                /\ CarriesEvery(id, RequestedTags(last_op.input))})
        /\ \A tg \in TagFilters :
              RequestedTags([tags |-> tg]) = RequestedTags(last_op.input)
                  => list_images(Tables, [last_op.input EXCEPT !.tags = tg])
                        = last_op.output[1]

\* the filter " SciFi ", "space", "space" found the record tagged scifi and
\* space and left out the record tagged scifi only
C17_Witness ==
    /\ Listed /\ AsksForAll
    /\ last_op.input.tags = <<Scifi, Space, Space>>
    /\ \E id \in DOMAIN images :
          /\ TagNamesOf(tags, links, id) = {ScifiPlain}
          /\ id \notin ListedItems
    /\ \E id \in ListedItems : TagNamesOf(tags, links, id) = {ScifiPlain, normalize_tag(Space)}

\* q occurs in text as a run of consecutive characters
OccursIn(q, text) ==
    \E i \in 0..Len(text) :
        i + Len(q) <= Len(text) /\ SubSeq(text, i + 1, i + Len(q)) = q

\* q occurs, whatever the case, in the prompt text, the notes or the model name
FoundIn(row, q) ==
    \/ OccursIn(LowerSeq(q), LowerSeq(row.prompt_text))
    \/ ~row.notes.null /\ OccursIn(LowerSeq(q), LowerSeq(row.notes.s))
    \/ ~row.ai_model.null /\ OccursIn(LowerSeq(q), LowerSeq(row.ai_model.s))

PassesAllButQ(id, f) ==
    MatchesOther(images[id], f) /\ MatchesTags(Tables, id, NormalizedTagSet(f.tags))

(* C18.  A list with the filter q returns a record, among those passing    *)
(* the other filters, if and only if q occurs case-insensitively as a      *)
(* substring of the record's prompt text, notes or model name; absent      *)
(* notes and model names never match, and every character of q is matched *)
(* literally.                                                              *)
C18_QueryIsLiteralSubstring ==
    (Listed /\ AsksForAll /\ ~last_op.input.q.null) =>
        ListedItems = {id \in DOMAIN images :
                          /\ PassesAllButQ(id, last_op.input)
                          /\ FoundIn(images[id], last_op.input.q.s)}

\* a character LIKE reads as a wildcard, or a blank that strip() removes
NotLiteral(c) == c \in {"%", "_", " "}

\* the same statement for the searches that hold no such character: it holds
C18_HoldsWithoutWildcardsAndBlanks ==
    (Listed /\ AsksForAll /\ ~last_op.input.q.null
        /\ \A i \in DOMAIN last_op.input.q.s : ~NotLiteral(last_op.input.q.s[i])) =>
        ListedItems = {id \in DOMAIN images :
                          /\ PassesAllButQ(id, last_op.input)
                          /\ FoundIn(images[id], last_op.input.q.s)}

\* the records matching the filters, in the order of the list
FilteredOrdered(f) == Ordered(images, _apply_filters(Tables, f))

ListedSeq == last_op.output[1].items

(* C19.  The total returned by list is the number of records matching the  *)
(* filters, whatever limit and offset are; the items are the records at    *)
(* positions offset .. offset+limit-1 of the filtered, ordered sequence,   *)
(* so their number is min(limit, max(0, total - offset)).                  *)
C19_TotalIgnoresPage ==
    Listed =>
        /\ ListedTotal = Cardinality({id \in DOMAIN images :
                                         /\ PassesAllButTags(id, last_op.input)
                                         /\ CarriesEvery(id, RequestedTags(last_op.input))})
        /\ \A l, o \in 0..MaxListCreates :
              list_images(Tables, [last_op.input EXCEPT !.limit = l, !.offset = o]).total
                  = ListedTotal
        /\ Len(ListedSeq) = Min(last_op.input.limit, Max(0, ListedTotal - last_op.input.offset))
        /\ \A j \in DOMAIN ListedSeq :
              ListedSeq[j] = FilteredOrdered(last_op.input)[last_op.input.offset + j]

\* three records match, the list asked for one item after the first: the
\* total is three and the item is the second of the ordered matches
C19_Witness ==
    /\ Listed
    /\ last_op.input.limit = 1 /\ last_op.input.offset = 1
    /\ ListedTotal = 3
    /\ Len(ListedSeq) = 1
    /\ ListedSeq[1] = FilteredOrdered(last_op.input)[2]
    /\ \E id \in DOMAIN images : images[id].captured_at = NoDate

-----------------------------------------------------------------------------
(* The store: crud.get_image and crud.delete_image.                        *)

\* crud.get_image
get_image(table, id) ==
    IF id \in DOMAIN table.images
    THEN [ok |-> TRUE, error |-> "none", id |-> id]
    ELSE [ok |-> FALSE, error |-> "NotFound", id |-> id]

Without(f, x) == [y \in DOMAIN f \ {x} |-> f[y]]

\* a variant that leaves the rows of imagetaglink
DeleteRow_KeepsLinks(table, id) ==
    [table EXCEPT !.images = Without(table.images, id)]

\* "session.delete(image)": the row goes, and with it the rows of the
\* association table of Image.tags
DeleteRow(table, id) ==
    [table EXCEPT !.images = Without(table.images, id),
                  !.links = {l \in table.links : l.image_id # id}]

\* files.delete_file: the directory afterwards; a name that cannot be resolved
\* is refused, a missing file is no error, an OSError leaves the file
delete_file(dir, file_name, os_error) ==
    IF ~sanitize_storage_name(file_name).ok THEN dir
    ELSE IF sanitize_storage_name(file_name).name \notin DOMAIN dir THEN dir
    ELSE IF os_error THEN dir
    ELSE Without(dir, sanitize_storage_name(file_name).name)

\* a variant that lets the OSError of unlink() escape
delete_file_raises_OSError(dir, file_name, os_error) ==
    /\ sanitize_storage_name(file_name).ok
    /\ sanitize_storage_name(file_name).name \in DOMAIN dir
    /\ os_error

\* files.delete_file: whether an exception escapes it; ValueError,
\* FileNotFoundError and OSError are all caught
delete_file_raises(dir, file_name, os_error) == FALSE

\* the names handed to files.delete_file
HandedNames(file_name, thumbnail_name) ==
    (IF NameTruthy(file_name) THEN <<file_name>> ELSE <<>>)
        \o (IF NameTruthy(thumbnail_name) THEN <<thumbnail_name>> ELSE <<>>)

RECURSIVE DeleteEach(_, _, _)
DeleteEach(dir, names, os_error) ==
    IF names = <<>> THEN dir
    ELSE IF delete_file_raises(dir, Head(names), os_error) THEN dir
    ELSE DeleteEach(delete_file(dir, Head(names), os_error), Tail(names), os_error)

\* an exception escapes one of the calls of delete_file
RECURSIVE RaisesAtSome(_, _, _)
RaisesAtSome(dir, names, os_error) ==
    IF names = <<>> THEN FALSE
    ELSE IF delete_file_raises(dir, Head(names), os_error) THEN TRUE
    ELSE RaisesAtSome(delete_file(dir, Head(names), os_error), Tail(names), os_error)

\* files.delete_media_files: each name that is given goes to delete_file
delete_media_files(dir, file_name, thumbnail_name, os_error) ==
    [handed |-> HandedNames(file_name, thumbnail_name),
     dir |-> DeleteEach(dir, HandedNames(file_name, thumbnail_name), os_error),
     raised |-> RaisesAtSome(dir, HandedNames(file_name, thumbnail_name), os_error)]

\* the row is deleted and committed, then the files are cleaned up
Deleted(table, id, cleanup) ==
    [ok |-> ~cleanup.raised, error |-> IF cleanup.raised THEN "OSError" ELSE "none",
     id |-> id, tables |-> DeleteRow(table, id),
     dir |-> cleanup.dir, handed |-> cleanup.handed]

\* crud.delete_image
delete_image(table, dir, id, os_error) ==
    IF ~get_image(table, id).ok
    THEN [ok |-> FALSE, error |-> "NotFound", id |-> id, tables |-> table,
          dir |-> dir, handed |-> <<>>]
    ELSE Deleted(table, id,
                 delete_media_files(dir, table.images[id].file_name,
                                    table.images[id].thumbnail_file, os_error))

-----------------------------------------------------------------------------
(* The delete specification: records are created, imported and deleted.    *)

\* the stored name "..", which files.sanitize_storage_name refuses
DotDot == FileName("../", <<>>, "")

DeleteSeeds ==
    {CreateData(A_png, "image", StrPrompt("p"), NoRating, NoName, <<Scifi>>),
     CreateData(DotDot, "image", StrPrompt("p"), NoRating, NoName, <<>>),
     CreateData(V_mp4, "video", StrPrompt("p"), NoRating, T_png, <<Scifi, Space>>)}

DeleteEntries ==
    {Entry(NoId, A_png, StrPrompt("p"), <<Space>>, "", T_png),
     Entry(NoId, A_png, StrPrompt("p"), <<>>, "", NoName)}

DeletedImage(id, os_error, r) ==
    /\ images' = r.tables.images
    /\ tags' = r.tables.tags
    /\ links' = r.tables.links
    /\ storage' = r.dir
    /\ last_op' = [op |-> "delete", ok |-> r.ok, error |-> r.error, id |-> id,
                   input |-> [id |-> id, os_error |-> os_error], output |-> r.handed]

\* a record is deleted through the store
DeleteImage(max) ==
    /\ StoreIdle
    /\ now <= max
    /\ \E id \in DOMAIN images \cup {UnknownId} : \E os_error \in BOOLEAN :
          DeletedImage(id, os_error, delete_image(Tables, storage, id, os_error))
    /\ now' = now + 1
    /\ before' = Snapshot
    /\ UNCHANGED <<nextId, pc, dry_run, batch, tx, imported_records, legacy_lookup,
                   idx, outcome, error, sessions, writer>>

NextDelete ==
    \/ CreateFrom(DeleteSeeds, MaxDeleteOps)
    \/ DeleteImage(MaxDeleteOps)
    \/ ImportStart({FALSE}, TRUE, MaxDeleteOps)
    \/ ImportEntry(DeleteEntries, MaxDeleteOps)
    \/ EndOfEntries
    \/ ApplyReferenceUpdate
    \/ ImportFinish

SpecDelete == Init /\ [][NextDelete]_vars

DeletedExisting == last_op.op = "delete" /\ last_op.id \in DOMAIN before.images

Handed == {last_op.output[i] : i \in DOMAIN last_op.output}

(* C20.  After delete(id) of an existing record, get(id) fails with        *)
(* NotFound, no tag association refers to id, every other record, its tag  *)
(* associations and every Tag row are unchanged, and the record's          *)
(* file_name and thumbnail_file were handed to the file storage for        *)
(* removal.                                                                *)
C20_DeleteRemovesRecordAndLinks ==
    DeletedExisting =>
        /\ last_op.ok
        /\ get_image(Tables, last_op.id).error = "NotFound"
        /\ \A l \in links : l.image_id # last_op.id
        /\ images = Without(before.images, last_op.id)
        /\ links = {l \in before.links : l.image_id # last_op.id}
        /\ tags = before.tags
        /\ before.images[last_op.id].file_name \in Handed
        /\ NameTruthy(before.images[last_op.id].thumbnail_file)
              => before.images[last_op.id].thumbnail_file \in Handed

\* a record with a thumbnail and two tags was deleted while another record
\* carried one of these tags; both files went to the file storage and the
\* other record keeps its tag
C20_Witness ==
    /\ DeletedExisting
    /\ NameTruthy(before.images[last_op.id].thumbnail_file)
    /\ Cardinality(Handed) = 2
    /\ Cardinality({l \in before.links : l.image_id = last_op.id}) = 2
    /\ \E j \in DOMAIN images : \E l \in links : l.image_id = j
    /\ Cardinality(DOMAIN storage) < Cardinality(DOMAIN before.storage)

\* the stored name that delete_file unlinks for a name it is handed
StoredAs(name) == sanitize_storage_name(name).name

InvalidStoredName(name) == ~sanitize_storage_name(name).ok

FileMissing(name) == ~InvalidStoredName(name) /\ StoredAs(name) \notin DOMAIN before.storage

UnlinkFailed(name) ==
    ~InvalidStoredName(name) /\ StoredAs(name) \in DOMAIN before.storage
        /\ last_op.input.os_error

\* the clean-up of the last delete met a failure
CleanupFailed ==
    \E name \in Handed : InvalidStoredName(name) \/ FileMissing(name) \/ UnlinkFailed(name)

C21_InvalidOrMissingWitness ==
    /\ DeletedExisting
    /\ \E name \in Handed : InvalidStoredName(name)
    /\ last_op.ok

-----------------------------------------------------------------------------
(* The prompt specification: records are created, updated and imported     *)
(* with prompt metadata of every shape.                                    *)

\* prompt_meta.extract_prompt_text
extract_prompt_text(value) ==
    CASE value.kind = "null" -> ""
      [] value.kind = "str" -> value.text
      [] value.kind = "list" -> value.items[Len(value.items)].text
      [] OTHER -> ""

PromptCreates ==
    {CreateData(A_png, "image", pm, NoRating, NoName, <<>>) :
        pm \in {NullPrompt, StrPrompt("p"), StrPrompt("q"), DictPrompt,
                ListPrompt(<<StrItem("p")>>)}}

PromptPayloads ==
    {UpdateData({"prompt_meta"}, StrPrompt("q"), NoRating, "image", NoName, <<>>, NoStr),
     UpdateData({"prompt_text"}, NullPrompt, NoRating, "image", NoName, <<>>, NoStr),
     UpdateData({"notes"}, NullPrompt, NoRating, "image", NoName, <<>>, NoStr)}

PromptEntries ==
    {Entry(LegacyId(1), A_png, StrPrompt("p"), <<>>, "", NoName),
     Entry(NoId, A_png, ListPrompt(<<RefItem(LegacyId(1)), StrItem("q")>>), <<>>, "", NoName),
     Entry(NoId, A_png, NullPrompt, <<>>, "", NoName),
     Entry(NoId, A_png, DictPrompt, <<>>, "", NoName)}

NextPrompt ==
    \/ CreateFrom(PromptCreates, MaxPromptOps)
    \/ UpdateFrom(PromptPayloads, MaxPromptOps)
    \/ ImportStart({FALSE}, TRUE, MaxPromptOps)
    \/ ImportEntry(PromptEntries, MaxPromptOps)
    \/ EndOfEntries
    \/ ApplyReferenceUpdate
    \/ ImportFinish

SpecPrompt == Init /\ [][NextPrompt]_vars

TextIsDerived(row) == row.prompt_text = extract_prompt_text(row.prompt_meta)

(* C22.  After any sequence of create, update and import operations every  *)
(* record's prompt_text equals the text extracted from its prompt_meta:    *)
(* the string itself, the trailing string of a reference list, the empty   *)
(* string for null or a free-form object.                                  *)
C22_PromptTextIsDerivable ==
    \A i \in DOMAIN images : TextIsDerived(images[i])

\* the same statement for the records of an import that has just committed:
\* it holds
C22_HoldsForImportedRecords ==
    (ImportCommitted /\ last_op.op = "import") =>
        \A k \in DOMAIN imported_records : TextIsDerived(images[IdOf(k)])

-----------------------------------------------------------------------------
(* The API: GET /images/{image_id}.                                        *)

\* api.images._image_to_schema: schemas.ImageRead has the fields of the row
\* and its tags, and no field "dependents"; a reader of the response finds none
_image_to_schema(table, id) ==
    [image |-> table.images[id],
     tags |-> TagNamesOf(table.tags, table.links, id),
     dependents |-> {}]

NoResponse == [image |-> NoPayload, tags |-> {}, dependents |-> {}]

\* api.images.retrieve_image
retrieve_image(table, id) ==
    IF ~get_image(table, id).ok
    THEN [ok |-> FALSE, error |-> "NotFound", response |-> NoResponse]
    ELSE [ok |-> TRUE, error |-> "none", response |-> _image_to_schema(table, id)]

-----------------------------------------------------------------------------
(* The detail specification: records that reference one another are        *)
(* created and fetched.                                                    *)

ReferringTo(ids) == ListPrompt(ids \o <<StrItem("p")>>)

DetailSeeds ==
    {CreateData(A_png, "image", StrPrompt("p"), NoRating, NoName, <<>>),
     CreateData(A_png, "image", ReferringTo(<<RefItem(Uuid(1))>>), NoRating, NoName, <<>>),
     CreateData(V_mp4, "video", ReferringTo(<<RefItem(Uuid(1))>>), NoRating, T_png, <<>>),
     CreateData(A_png, "image", ReferringTo(<<RefItem(Uuid(2)), RefItem(Uuid(1))>>),
                NoRating, NoName, <<Scifi>>),
     CreateData(A_png, "image", ReferringTo(<<RefItem(Uuid(0))>>), NoRating, NoName, <<>>)}

Retrieved(id, r) ==
    last_op' = [op |-> "get", ok |-> r.ok, error |-> r.error, id |-> id,
                input |-> [id |-> id], output |-> <<r.response>>]

\* a record is fetched through the API
RetrieveImage ==
    /\ StoreIdle
    /\ \E id \in DOMAIN images \cup {UnknownId} : Retrieved(id, retrieve_image(Tables, id))
    /\ before' = Snapshot
    /\ UNCHANGED <<images, tags, links, storage, nextId, now, pc, dry_run, batch, tx,
                   imported_records, legacy_lookup, idx, outcome, error, sessions,
                   writer>>

NextDetail ==
    \/ CreateFrom(DetailSeeds, MaxDetailCreates)
    \/ RetrieveImage

SpecDetail == Init /\ [][NextDetail]_vars

\* the reference list of the row holds a reference with the id
References(row, id) ==
    /\ row.prompt_meta.kind = "list"
    /\ \E i \in DOMAIN row.prompt_meta.items :
          row.prompt_meta.items[i].type = "dict" /\ row.prompt_meta.items[i].id = id

\* schemas.ImageDependent, as far as the claim names its fields
AsDependent(row) ==
    [id |-> row.id, file_name |-> row.file_name, media_type |-> row.media_type,
     thumbnail_file |-> row.thumbnail_file]

(* C23.  Getting a record by id returns, as its dependents, exactly the    *)
(* existing records whose prompt_meta reference list holds a reference     *)
(* with that id, each with its id, file name, media type and thumbnail,    *)
(* and no dependents when no record references it.                         *)
C23_GetReturnsDependents ==
    (last_op.op = "get" /\ last_op.ok) =>
        last_op.output[1].dependents =
            {AsDependent(images[j]) : j \in {k \in DOMAIN images :
                                                References(images[k], last_op.id)}}

\* the same statement for the records that no record references: it holds
C23_HoldsWithoutDependents ==
    (last_op.op = "get" /\ last_op.ok
        /\ \A k \in DOMAIN images : ~References(images[k], last_op.id)) =>
        /\ last_op.output[1].dependents = {}
        /\ last_op.output[1].image = images[last_op.id]

-----------------------------------------------------------------------------
(* The API: POST /images.  An upload is [null, ext, content_type].         *)

NoUpload == [null |-> TRUE, ext |-> "", content_type |-> ""]
Upload(ext, content_type) == [null |-> FALSE, ext |-> ext, content_type |-> content_type]

ALLOWED_CONTENT_TYPES == {"image/png", "image/jpeg", "image/webp"}
VideoContentTypes == {"video/mp4", "video/quicktime", "video/webm", "video/x-matroska"}

\* files.allowed_content_types_for(media_type)
allowed_content_types_for(media_type) ==
    IF media_type = "video" THEN VideoContentTypes ELSE ALLOWED_CONTENT_TYPES

\* files.is_allowed_upload(upload, media_type)
is_allowed_upload(upload, media_type) ==
    /\ LowerExt(upload.ext) \in
          (IF media_type = "video" THEN VideoSuffixes ELSE ALLOWED_EXTENSIONS)
    /\ upload.content_type \in allowed_content_types_for(media_type)

\* the name files.save_upload gives the n-th uuid4: uuid4().hex and the suffix
UploadName(n, ext) == FileName("", <<"u", ToString(n)>>, LowerExt(ext))

\* files.save_upload: ok = FALSE stands for the ValueError
save_upload(dir, upload, n) ==
    IF LowerExt(upload.ext) \notin ALLOWED_EXTENSIONS
    THEN [ok |-> FALSE, name |-> NoName, dir |-> dir]
    ELSE [ok |-> TRUE, name |-> UploadName(n, upload.ext),
          dir |-> CopyTo(dir, UploadName(n, upload.ext), UploadName(n, upload.ext)).dir]

\* api.images._store_upload_or_400
_store_upload_or_400(dir, upload, media_type, n) ==
    IF ~is_allowed_upload(upload, media_type)
    THEN [ok |-> FALSE, name |-> NoName, dir |-> dir]
    ELSE save_upload(dir, upload, n)

\* the form of a request
UploadForm(mt, media, thumb, r, captured, pm, store_fails) ==
    [media_type |-> mt, media_file |-> media, thumbnail_file |-> thumb, rating |-> r,
     captured_at |-> captured, prompt_meta |-> pm, store_fails |-> store_fails]

Rejected(status, table, dir, drawn) ==
    [ok |-> FALSE, error |-> status, id |-> NoId, tables |-> table, dir |-> dir,
     drawn |-> drawn]

\* "payload = schemas.ImageCreate(...)" with the parsers of its arguments: the
\* status of the exception raised, or "none"
PayloadError(form) ==
    IF form.rating.kind = "bad" THEN "400"
    ELSE IF form.captured_at.kind = "bad" THEN "422"
    ELSE IF ~validate_prompt_meta_structure(form.prompt_meta) THEN "ValidationError"
    ELSE IF form.rating.kind = "num" /\ (form.rating.v < 0 \/ form.rating.v > 500)
    THEN "ValidationError"
    ELSE "none"

UploadPayload(form, saved_file, saved_thumbnail) ==
    [CreateData(saved_file, form.media_type, form.prompt_meta, form.rating,
                saved_thumbnail, <<>>) EXCEPT !.captured_at = form.captured_at]

\* "except Exception: files.delete_media_files(saved_file, saved_thumbnail); raise"
CleanedUp(status, table, dir, saved_file, saved_thumbnail, drawn) ==
    Rejected(status, table,
             delete_media_files(dir, saved_file, saved_thumbnail, FALSE).dir, drawn)

CreatedOrCleaned(r, table, dir, saved_file, saved_thumbnail, drawn) ==
    IF ~r.ok THEN CleanedUp(r.error, table, dir, saved_file, saved_thumbnail, drawn)
    ELSE [ok |-> TRUE, error |-> "none", id |-> r.id, tables |-> r.tables, dir |-> dir,
          drawn |-> drawn + 1]

\* the body of "try:"
TryCreate(table, dir, form, saved_file, saved_thumbnail, n, drawn, t) ==
    IF PayloadError(form) # "none"
    THEN CleanedUp(PayloadError(form), table, dir, saved_file, saved_thumbnail, drawn)
    ELSE IF form.store_fails
    THEN CleanedUp("StoreError", table, dir, saved_file, saved_thumbnail, drawn)
    ELSE CreatedOrCleaned(create_image(table,
                                       UploadPayload(form, saved_file, saved_thumbnail),
                                       n + drawn, t),
                          table, dir, saved_file, saved_thumbnail, drawn)

\* "if thumbnail_file is not None: saved_thumbnail = _store_upload_or_400(...)":
\* its HTTPException leaves the endpoint before "try:"
WithThumbnail(table, dir, form, saved_file, stored, n, t) ==
    IF ~stored.ok THEN Rejected("400", table, dir, 1)
    ELSE TryCreate(table, stored.dir, form, saved_file, stored.name, n, 2, t)

AfterMedia(table, form, stored, n, t) ==
    IF ~stored.ok THEN Rejected("400", table, stored.dir, 0)
    ELSE IF form.thumbnail_file.null
    THEN TryCreate(table, stored.dir, form, stored.name, NoName, n, 1, t)
    ELSE WithThumbnail(table, stored.dir, form, stored.name,
                       _store_upload_or_400(stored.dir, form.thumbnail_file, "image", n + 1),
                       n, t)

\* api.images.create_image_endpoint
create_image_endpoint(table, dir, form, n, t) ==
    IF form.media_type \notin {"image", "video"} THEN Rejected("400", table, dir, 0)
    ELSE IF form.media_type = "video" /\ form.thumbnail_file.null
    THEN Rejected("400", table, dir, 0)
    ELSE AfterMedia(table, form,
                    _store_upload_or_400(dir, form.media_file, form.media_type, n), n, t)

-----------------------------------------------------------------------------
(* The upload specification: requests to create a record arrive.           *)

Png == Upload(".png", "image/png")
Mislabeled == Upload(".png", "text/plain")
Mp4 == Upload(".mp4", "video/mp4")

UploadForms ==
    {UploadForm(mt, media, thumb, r, captured, pm, sf) :
        mt \in {"image", "video", "bad"},
        media \in {Png, Mislabeled, Mp4},
        thumb \in {NoUpload, Png, Mislabeled},
        r \in {NoRating, NumRating(600), BadRating},
        captured \in {NoDate, [kind |-> "bad", v |-> 0]},
        pm \in {NullPrompt, ListPrompt(<<>>)},
        sf \in BOOLEAN}

Uploaded(form, r) ==
    /\ images' = r.tables.images
    /\ tags' = r.tables.tags
    /\ links' = r.tables.links
    /\ storage' = r.dir
    /\ nextId' = nextId + r.drawn
    /\ last_op' = [op |-> "upload", ok |-> r.ok, error |-> r.error, id |-> r.id,
                   input |-> form, output |-> <<>>]

\* a request to create a record is served
CreateImageEndpoint(universe, max) ==
    /\ StoreIdle
    /\ now <= max
    /\ \E form \in universe :
          Uploaded(form, create_image_endpoint(Tables, storage, form, nextId, now))
    /\ now' = now + 1
    /\ before' = Snapshot
    /\ UNCHANGED <<pc, dry_run, batch, tx, imported_records, legacy_lookup, idx,
                   outcome, error, sessions, writer>>

NextUpload == CreateImageEndpoint(UploadForms, MaxUploads)

SpecUpload == Init /\ [][NextUpload]_vars

UploadFailed == last_op.op = "upload" /\ ~last_op.ok

ThumbnailRefused ==
    /\ last_op.input.media_type \in {"image", "video"}
    /\ is_allowed_upload(last_op.input.media_file, last_op.input.media_type)
    /\ ~last_op.input.thumbnail_file.null
    /\ ~is_allowed_upload(last_op.input.thumbnail_file, "image")

\* the same statement for the failures other than a refused thumbnail: it holds
C24_HoldsUnlessThumbnailRefused ==
    (UploadFailed /\ ~ThumbnailRefused) =>
        (storage = before.storage /\ images = before.images)

\* a request failed on its rating after both files had been saved, and
\* nothing is left of them
C24_CleanupWitness ==
    /\ UploadFailed
    /\ last_op.input.media_file = Png /\ last_op.input.thumbnail_file = Png
    /\ last_op.input.media_type = "image"
    /\ last_op.input.rating = NumRating(600)
    /\ storage = before.storage

-----------------------------------------------------------------------------
(* Records that name the same stored file: creations, imports whose        *)
(* entries reference one another, and deletions.                           *)

ShareSeeds ==
    {CreateData(A_png, "image", StrPrompt("p"), NoRating, NoName, <<>>),
     CreateData(V_mp4, "video", StrPrompt("p"), NoRating, T_png, <<>>)}

ShareEntries ==
    {Entry(LegacyId(1), A_png, StrPrompt("p"), <<>>, "", th) : th \in {NoName, T_png}}
        \cup {Entry(NoId, A_png, ListPrompt(<<RefItem(LegacyId(1)), StrItem("q1")>>),
                    <<>>, "", NoName)}

NextShare ==
    \/ CreateFrom(ShareSeeds, MaxShareOps)
    \/ DeleteImage(MaxShareOps)
    \/ ImportStart({FALSE}, TRUE, MaxShareOps)
    \/ ImportEntry(ShareEntries, MaxShareOps)
    \/ EndOfEntries
    \/ ApplyReferenceUpdate
    \/ ImportFinish

SpecShare == Init /\ [][NextShare]_vars

\* the stored files a record names
NamedBy(row) ==
    {StoredAs(n) : n \in {m \in {row.file_name, row.thumbnail_file} :
                             ~InvalidStoredName(m)}}

\* the files the last operation removed from the managed storage
Removed == DOMAIN before.storage \ DOMAIN storage

(* C25.  Deleting a record never removes from the managed storage a file   *)
(* that a record still in the store names as its file name or thumbnail,   *)
(* a name inherited from a referenced record included.                     *)
C25_DeleteKeepsFilesInUse ==
    DeletedExisting => \A i \in DOMAIN images : NamedBy(images[i]) \cap Removed = {}

\* the deleted record was imported, and a record still in the store had
\* inherited its thumbnail from it in phase 2; that thumbnail is gone
C25_InheritedThumbnailRemoved ==
    /\ DeletedExisting
    /\ pc = "done"
    /\ \E i \in DOMAIN images :
          /\ images[i].prompt_meta.kind = "list"
          /\ \E k \in DOMAIN images[i].prompt_meta.items :
                images[i].prompt_meta.items[k].id = last_op.id
          /\ StoredAs(images[i].thumbnail_file) \in Removed

-----------------------------------------------------------------------------
(* Imports of video entries whose thumbnail is left to phase 2.            *)

\* entries that differ in declared id, media type, declared thumbnail and in
\* whether their reference is declared by an entry of the batch
DeferEntries ==
    {Entry(i, A_png, ListPrompt(<<RefItem(l), StrItem("q1")>>), <<>>, mt, th) :
        i \in {NoId, LegacyId(1)}, l \in {LegacyId(1), LegacyId(3)},
        mt \in {"", "video"}, th \in {NoName, T_png}}

NextDefer ==
    \/ ImportStart({FALSE}, FALSE, MaxDeferEntries)
    \/ ImportEntry(DeferEntries, MaxDeferEntries)
    \/ EndOfEntries
    \/ ApplyReferenceUpdate
    \/ ImportFinish

SpecDefer == Init /\ [][NextDefer]_vars

(* C26.  After a successful non-dry-run import every VIDEO record it       *)
(* created has a non-empty thumbnail_file, also the record of an entry     *)
(* admitted without a thumbnail because it carries references of which     *)
(* none resolves.                                                          *)
C26_ImportedVideosHaveThumbnail ==
    ImportCommitted =>
        \A k \in DOMAIN imported_records :
            images[IdOf(k)].media_type = "video"
                => NameTruthy(images[IdOf(k)].thumbnail_file)

\* the same statement for the video entries with a reference that an entry
\* of the batch declares: it holds
C26_HoldsWhenAReferenceResolves ==
    ImportCommitted =>
        \A k \in DOMAIN imported_records :
            (images[IdOf(k)].media_type = "video"
                /\ ResolvablePositions(batch, batch[k]) # {})
                => NameTruthy(images[IdOf(k)].thumbnail_file)

\* a committed import with a video that took its thumbnail in phase 2
C26_DeferredWitness ==
    /\ ImportCommitted
    /\ \E k \in DOMAIN imported_records :
          /\ images[IdOf(k)].media_type = "video"
          /\ NamesNoThumbnail(batch[k])
          /\ NameTruthy(images[IdOf(k)].thumbnail_file)

-----------------------------------------------------------------------------
(* Legacy ids after an import.                                             *)

\* the ids in the reference list a record stores
StoredRefIds(row) ==
    IF row.prompt_meta.kind # "list" THEN {}
    ELSE {row.prompt_meta.items[j].id :
             j \in {m \in DOMAIN row.prompt_meta.items :
                       row.prompt_meta.items[m].type = "dict"}}

(* C27.  After a successful non-dry-run import no record it created has a  *)
(* declared legacy id as its own id, and every reference id in the         *)
(* prompt_meta of a record it created is the id of a record in the store,  *)
(* also when none of the record's references resolves.                     *)
C27_NoLegacyIdIsStored ==
    ImportCommitted =>
        \A k \in DOMAIN imported_records :
            /\ ~Declares(batch, IdOf(k))
            /\ StoredRefIds(images[IdOf(k)]) \subseteq DOMAIN images

\* the same statement for the records of entries with a reference that an
\* entry of the batch declares, or with no reference: it holds
C27_HoldsWhenAReferenceResolves ==
    ImportCommitted =>
        \A k \in DOMAIN imported_records :
            /\ ~Declares(batch, IdOf(k))
            /\ (EntryRefs(batch[k]) = <<>> \/ ResolvablePositions(batch, batch[k]) # {})
                  => StoredRefIds(images[IdOf(k)]) \subseteq DOMAIN images

\* a committed import with a record whose three references were rewritten
\* to two ids of records in the store
C27_RewrittenWitness ==
    /\ ImportCommitted
    /\ \E k \in DOMAIN imported_records :
          /\ Len(EntryRefs(batch[k])) = 3
          /\ Cardinality(StoredRefIds(images[IdOf(k)])) = 2
          /\ StoredRefIds(images[IdOf(k)]) \subseteq DOMAIN images

-----------------------------------------------------------------------------
(* Imports whose references form cycles.                                   *)

\* entries that reference themselves and one another
CycleEntries ==
    {Entry(i, A_png, p, <<>>, "", NoName) :
        i \in {LegacyId(1), LegacyId(2)},
        p \in {ListPrompt(<<RefItem(LegacyId(1)), StrItem("q1")>>),
               ListPrompt(<<RefItem(LegacyId(2)), StrItem("q1")>>),
               ListPrompt(<<RefItem(LegacyId(2)), RefItem(LegacyId(1)), StrItem("q2")>>)}}
        \cup {Entry(LegacyId(1), A_png, ListPrompt(<<RefItem(LegacyId(2)), StrItem("q1")>>),
                    <<>>, "", T_png)}

NextCycle ==
    \/ ImportStart({FALSE}, FALSE, MaxCycleEntries)
    \/ ImportEntry(CycleEntries, MaxCycleEntries)
    \/ EndOfEntries
    \/ ApplyReferenceUpdate
    \/ ImportFinish

SpecCycle == Init /\ [][NextCycle]_vars

\* _apply_reference_updates is a for loop of one thread: a pass that can be
\* made is made, and the commit follows the last pass
SpecCycleFair ==
    SpecCycle /\ WF_vars(ApplyReferenceUpdate) /\ WF_vars(ImportFinish)

\* entry k of b has a reference to the legacy id entry m declares
RefersTo(b, k, m) ==
    \E j \in DOMAIN EntryRefs(b[k]) : EntryRefs(b[k])[j].id = b[m].id

SelfReferring(b) == \E k \in DOMAIN b : RefersTo(b, k, k)

Cyclic(b) ==
    \E k, m \in DOMAIN b : k # m /\ b[k].id # b[m].id
                              /\ RefersTo(b, k, m) /\ RefersTo(b, m, k)

\* the pass over record idx: it is the only record the session changes, its
\* references carry the ids the lookup holds for them, and the loop moves on
\* to the next record
VisitsOne ==
    /\ idx \in DOMAIN imported_records
    /\ idx' = idx + 1
    /\ \A i \in DOMAIN tx.images \ {IdOf(idx)} : tx'.images[i] = tx.images[i]
    /\ tx'.images[IdOf(idx)].prompt_meta =
          IF ResolvablePositions(batch, batch[idx]) = {}
          THEN tx.images[IdOf(idx)].prompt_meta
          ELSE ExpectedMeta(batch, batch[idx])

(* C28.  Phase 2 of an import terminates for every finite batch, also when *)
(* the references form a cycle or an entry references its own legacy id:   *)
(* each imported record is visited exactly once, each of its references is *)
(* resolved by one lookup, and no chain of references is followed.         *)
C28_Phase2Terminates ==
    /\ [][(pc = "phase2" /\ pc' = "phase2") => VisitsOne]_vars
    /\ [][(pc = "phase2" /\ pc' = "done") => idx = Len(imported_records) + 1]_vars
    /\ (pc = "phase2") ~> (pc = "done")

\* an import of a batch with a cycle and a self-reference has ended, every
\* record visited
C28_Witness ==
    /\ ImportCommitted
    /\ Len(batch) = 3
    /\ Cyclic(batch) /\ SelfReferring(batch)
    /\ idx = Len(imported_records) + 1

-----------------------------------------------------------------------------
(* Imports of video files.                                                 *)

\* an entry whose file has a video extension and that names a thumbnail,
\* both files being in the source directory
VideoFileWithThumbnail(e) ==
    /\ LowerExt(e.file.ext) \in VideoSuffixes
    /\ e.media_type \in {"", "video"}
    /\ NameTruthy(e.thumbnail_file)
    /\ _resolve_source_file(e.file).ok
    /\ _resolve_source_file(e.thumbnail_file).ok

(* C29.  A non-dry-run import of an entry whose file has a video extension *)
(* and that names a thumbnail, the media and thumbnail files both being in *)
(* the source directory, succeeds and creates a record with media type     *)
(* VIDEO and that thumbnail.                                               *)
C29_VideoFileIsImported ==
    (ImportEnded /\ ~dry_run /\ Len(batch) = 1 /\ VideoFileWithThumbnail(batch[1])) =>
        /\ ImportCommitted
        /\ Len(imported_records) = 1
        /\ images[IdOf(1)].media_type = "video"
        /\ NameTruthy(images[IdOf(1)].thumbnail_file)

\* the import of such an entry has ended with the error of the extension check
C29_RefusedByExtension ==
    /\ ImportFailed /\ ~dry_run
    /\ Len(batch) = 1 /\ VideoFileWithThumbnail(batch[1])
    /\ error = "UnsupportedFileType"
    /\ images = before.images

-----------------------------------------------------------------------------
(* Sequential imports whose files collide in the managed storage.          *)

Sub_a_png == FileName("sub/", <<"a">>, ".png")

\* entries whose media files and thumbnails ask for the same stored names
CopyEntries ==
    {Entry(NoId, f, StrPrompt("p"), <<>>, "", th) :
        f \in {A_png, Sub_a_png, T_png}, th \in {NoName, A_png, T_png}}

NextCopy ==
    \/ ImportStart(BOOLEAN, TRUE, MaxCopyEntries)
    \/ ImportEntry(CopyEntries, MaxCopyEntries)
    \/ EndOfEntries
    \/ ApplyReferenceUpdate
    \/ ImportFinish

SpecCopy == Init /\ [][NextCopy]_vars

\* the record the step has added to the session
Added == tx'.images[imported_records'[Len(imported_records')].image_id]

\* every file of the storage is there afterwards, under its name and as it was
StorageKept ==
    \A n \in DOMAIN storage : n \in DOMAIN storage' /\ storage'[n] = storage[n]

\* the names the step stored are names the storage did not hold, and differ
FreshNames ==
    (Len(imported_records') = Len(imported_records) + 1 /\ ~dry_run) =>
        /\ Added.file_name \in DOMAIN storage' \ DOMAIN storage
        /\ NameTruthy(Added.thumbnail_file) =>
              /\ Added.thumbnail_file \in DOMAIN storage' \ DOMAIN storage
              /\ Added.thumbnail_file # Added.file_name
        /\ \A i \in DOMAIN tx.images :
              {tx.images[i].file_name, tx.images[i].thumbnail_file}
                  \cap {Added.file_name, Added.thumbnail_file} \subseteq {NoName}

(* C30.  Across sequential imports a copy into the managed storage never   *)
(* overwrites or changes a file already there: the stored name returned is *)
(* one the storage did not hold before the copy (suffixed _1, _2, ... on   *)
(* collision), so no two copies of imports end up under one stored name.   *)
C30_CopyNeverOverwrites == [][StorageKept /\ FreshNames]_vars

\* the second import stored its file and its thumbnail under suffixed names
\* beside the files of the first
C30_Witness ==
    /\ ImportCommitted
    /\ Len(imported_records) = 1
    /\ images[IdOf(1)].file_name = Candidate(A_png, 2)
    /\ images[IdOf(1)].thumbnail_file = Candidate(T_png, 1)
    /\ storage[A_png] = A_png
    /\ storage[Candidate(A_png, 1)] = Sub_a_png

====
